---- MODULE Spec2Model ----
(***************************************************************************)
(* Model of the two-wheel motor control stack (motor_control_app.c over    *)
(* tb6612fng.c over ports/stm32f407/motor_port.c) and of the JY61P sensor  *)
(* address scan (jy61p_app.c).                                             *)
(*                                                                         *)
(* Every C function is an operator from a machine record (driver state,    *)
(* port state, GPIO pins, timer compare registers, PWM outputs) to a       *)
(* result record; an action applies one public operation as a whole.       *)
(* Two history fields travel with the machine: calls, the port-layer       *)
(* calls made by the running operation, and hw, the hardware state before  *)
(* the operation followed by the state after each hardware write; faults   *)
(* names the underlying hardware calls that failed during the operation.   *)
(***************************************************************************)
EXTENDS Integers, Sequences, FiniteSets, TLC

(* ------------------------------------------------------------------ *)
(* Bounds of the model: the sample speeds fed to the operations.       *)
(* ------------------------------------------------------------------ *)
SpeedLow == 40
SpeedOver == 150
MaxMisses == 1
(* the receive stream is free while fewer than RxHead bytes have been   *)
(* accumulated and from RxTail accumulated bytes on                     *)
RxHead == 3
RxTail == 47
(* HAL transfer outcomes offered to one call of the I2C port *)
MaxXfers == 4
(* registers reported by one callback, besides the main loop's 12 *)
MaxRegNum == 3

(* ------------------------------------------------------------------ *)
(* Program constants                                                   *)
(* ------------------------------------------------------------------ *)
TB6612_OK == 0
TB6612_ERROR_INVALID_PARAM == -2
TB6612_ERROR_NOT_INITIALIZED == -3
TB6612_ERROR_HARDWARE_FAULT == -4

TB6612_MOTOR_A == 0
TB6612_MOTOR_B == 1
TB6612_MOTOR_MAX == 2

TB6612_STOP == 0
TB6612_FORWARD == 1
TB6612_BACKWARD == 2
TB6612_BRAKE == 3

TB6612_STATE_IDLE == 0
TB6612_STATE_RUNNING == 1

TB6612_MAX_SPEED_PERCENT == 100
TB6612_MIN_SPEED_PERCENT == 0

TB6612_DEFAULT_PWM_FREQ == 10000
TB6612_DEFAULT_PWM_RESOLUTION == 10
TB6612_DEFAULT_MAX_DUTY == 95
TB6612_DEFAULT_MIN_DUTY == 5

SYSTEM_CLOCK_FREQ == 168000000

(* A pointer is a sequence: empty for NULL, else the one object pointed to *)
NULL == <<>>

(* ------------------------------------------------------------------ *)
(* C arithmetic                                                        *)
(* ------------------------------------------------------------------ *)
abs(x) == IF x < 0 THEN 0 - x ELSE x

ToUint16(x) == x % 65536

(* ------------------------------------------------------------------ *)
(* Zero-initialised statics                                            *)
(* ------------------------------------------------------------------ *)
ZeroConfig ==
    [pwm_frequency |-> 0, pwm_resolution |-> 0,
     max_duty_cycle |-> 0, min_duty_cycle |-> 0]

ZeroMotorStatus ==
    [direction |-> TB6612_STOP, state |-> TB6612_STATE_IDLE, speed_percent |-> 0]

ZeroDriver ==
    [initialized |-> FALSE, config |-> ZeroConfig,
     motor_status |-> [i \in 0..(TB6612_MOTOR_MAX - 1) |-> ZeroMotorStatus]]

ZeroPwmState ==
    [initialized |-> FALSE, frequency |-> 0, period |-> 0, prescaler |-> 0]

ZeroAppStatus ==
    [initialized |-> FALSE, motor_a_enabled |-> FALSE, motor_b_enabled |-> FALSE,
     current_speed_a |-> 0, current_speed_b |-> 0,
     current_dir_a |-> 0, current_dir_b |-> 0]

PinNames == {"AIN1", "AIN2", "BIN1", "BIN2"}

(* The hardware as seen from outside: direction pins, TIM1 compare      *)
(* registers of channels 1 and 2, and whether each PWM output runs.     *)
Snap(m) == [pins |-> m.pins, ccr |-> m.ccr, on |-> m.on]

HwWrite(m) == [m EXCEPT !.hw = Append(@, Snap(m))]

(* ------------------------------------------------------------------ *)
(* motor_port.c : GPIO                                                 *)
(* ------------------------------------------------------------------ *)
gpio_port_set_pin(m, pin, state) ==
    IF state # 0
    THEN HwWrite([m EXCEPT !.pins[pin] = 1])
    ELSE HwWrite([m EXCEPT !.pins[pin] = 0])

gpio_port_init(m) ==
    LET m1 == HwWrite([m  EXCEPT !.pins["AIN1"] = 0])
        m2 == HwWrite([m1 EXCEPT !.pins["AIN2"] = 0])
        m3 == HwWrite([m2 EXCEPT !.pins["BIN1"] = 0])
        m4 == HwWrite([m3 EXCEPT !.pins["BIN2"] = 0])
    IN  [m |-> m4, ret |-> 0]

configure_motor_gpio(m) ==
    LET r == gpio_port_init(m)
    IN  IF r.ret # 0
        THEN [m |-> r.m, ret |-> TB6612_ERROR_HARDWARE_FAULT]
        ELSE [m |-> r.m, ret |-> TB6612_OK]

AllPinsLow(m) ==
    gpio_port_set_pin(
      gpio_port_set_pin(
        gpio_port_set_pin(
          gpio_port_set_pin(m, "AIN1", 0), "AIN2", 0), "BIN1", 0), "BIN2", 0)

(* ------------------------------------------------------------------ *)
(* motor_port.c : PWM                                                  *)
(* e.tim_init_ok, e.ch_ok[c] are the outcomes of HAL_TIM_PWM_Init and   *)
(* of HAL_TIM_PWM_Start/Stop on channel c during this operation.        *)
(* ------------------------------------------------------------------ *)
PWM_FREQ_MIN == 1000
PWM_FREQ_MAX == 20000

RECURSIVE calc_loop(_, _)
calc_loop(frequency, temp_prescaler) ==
    IF temp_prescaler > 65536
    THEN [ret |-> -2, prescaler |-> 0, period |-> 0]
    ELSE LET temp_period ==   \* uint32; the product stays below 2^31
               SYSTEM_CLOCK_FREQ \div (temp_prescaler * frequency)
         IN  IF temp_period > 0 /\ temp_period <= 65536
             THEN [ret |-> 0, prescaler |-> ToUint16(temp_prescaler),
                   period |-> ToUint16(temp_period)]
             ELSE calc_loop(frequency, temp_prescaler + 1)

(* mutant of calculate_pwm_parameters: the search starts at prescaler 2 *)
calculate_pwm_parameters_FromTwo(frequency) == calc_loop(frequency, 2)

calculate_pwm_parameters(frequency) == calc_loop(frequency, 1)

pwm_port_init(m, e, frequency) ==
    IF frequency < PWM_FREQ_MIN \/ frequency > PWM_FREQ_MAX
    THEN [m |-> m, ret |-> -1]
    ELSE LET c == calculate_pwm_parameters(frequency)
         IN  IF c.ret # 0 THEN [m |-> m, ret |-> -2]
             ELSE IF ~e.tim_init_ok
             THEN [m |-> [m EXCEPT !.faults = @ \cup {"tim_init"}], ret |-> -3]
             ELSE [m |-> [m EXCEPT !.pwm =
                            [initialized |-> TRUE, frequency |-> frequency,
                             period |-> c.period, prescaler |-> c.prescaler]],
                   ret |-> 0]

pwm_port_set_duty(m, channel, duty_percent) ==
    IF ~m.pwm.initialized \/ duty_percent > 100
    THEN [m |-> [m EXCEPT !.faults = @ \cup {"pwm_set_duty"}], ret |-> -1]
    ELSE IF channel \notin {1, 2}
    THEN [m |-> [m EXCEPT !.faults = @ \cup {"pwm_set_duty"}], ret |-> -2]
    ELSE LET pulse_value == (m.pwm.period * duty_percent) \div 100
         IN  [m |-> HwWrite([m EXCEPT !.ccr[channel] = pulse_value]), ret |-> 0]

pwm_port_start(m, e, channel) ==
    IF ~m.pwm.initialized THEN [m |-> m, ret |-> -1]
    ELSE IF channel \notin {1, 2} THEN [m |-> m, ret |-> -2]
    ELSE IF ~e.ch_ok[channel]
    THEN [m |-> [m EXCEPT !.faults = @ \cup {"pwm_start"}], ret |-> -3]
    ELSE [m |-> HwWrite([m EXCEPT !.on[channel] = TRUE]), ret |-> 0]

pwm_port_stop(m, e, channel) ==
    IF ~m.pwm.initialized THEN [m |-> m, ret |-> -1]
    ELSE IF channel \notin {1, 2} THEN [m |-> m, ret |-> -2]
    ELSE IF ~e.ch_ok[channel]
    THEN [m |-> [m EXCEPT !.faults = @ \cup {"pwm_stop"}], ret |-> -3]
    ELSE [m |-> HwWrite([m EXCEPT !.on[channel] = FALSE]), ret |-> 0]

(* ------------------------------------------------------------------ *)
(* motor_port.c : motor interface                                      *)
(* ------------------------------------------------------------------ *)
motor_port_init(m, e, config) ==
    IF config = NULL THEN [m |-> m, ret |-> TB6612_ERROR_INVALID_PARAM]
    ELSE LET g == configure_motor_gpio(m)
         IN  IF g.ret # TB6612_OK THEN g
             ELSE LET p == pwm_port_init(g.m, e, config[1].pwm_frequency)
                  IN  IF p.ret # 0
                      THEN [m |-> p.m, ret |-> TB6612_ERROR_HARDWARE_FAULT]
                      ELSE LET s1 == pwm_port_stop(p.m, e, 1).m
                               s2 == pwm_port_stop(s1, e, 2).m
                           IN  [m |-> AllPinsLow(s2), ret |-> TB6612_OK]

motor_port_deinit(m, e) ==
    LET s1 == pwm_port_stop(m, e, 1).m
        s2 == pwm_port_stop(s1, e, 2).m
        s3 == AllPinsLow(s2)
    IN  [m |-> [s3 EXCEPT !.pwm = ZeroPwmState], ret |-> TB6612_OK]

(* mutant of DirPins: FORWARD and BACKWARD exchanged *)
DirPins_Swapped(direction) ==
    CASE direction = TB6612_STOP     -> <<0, 0>>
      [] direction = TB6612_FORWARD  -> <<0, 1>>
      [] direction = TB6612_BACKWARD -> <<1, 0>>
      [] direction = TB6612_BRAKE    -> <<1, 1>>

(* TB6612FNG truth table: the levels written to IN1 and IN2 *)
DirPins(direction) ==
    CASE direction = TB6612_STOP     -> <<0, 0>>
      [] direction = TB6612_FORWARD  -> <<1, 0>>
      [] direction = TB6612_BACKWARD -> <<0, 1>>
      [] direction = TB6612_BRAKE    -> <<1, 1>>

motor_port_set_direction(m0, motor, direction) ==
    LET m == [m0 EXCEPT !.calls = Append(@, <<"dir", motor, direction>>)]
        in1 == IF motor = TB6612_MOTOR_A THEN "AIN1" ELSE "BIN1"
        in2 == IF motor = TB6612_MOTOR_A THEN "AIN2" ELSE "BIN2"
    IN  IF motor >= TB6612_MOTOR_MAX
        THEN [m |-> m, ret |-> TB6612_ERROR_INVALID_PARAM]
        ELSE IF motor \notin {TB6612_MOTOR_A, TB6612_MOTOR_B}
        THEN [m |-> m, ret |-> TB6612_OK]
        ELSE IF direction \notin TB6612_STOP..TB6612_BRAKE
        THEN [m |-> m, ret |-> TB6612_ERROR_INVALID_PARAM]
        ELSE [m |-> gpio_port_set_pin(
                      gpio_port_set_pin(m, in1, DirPins(direction)[1]),
                      in2, DirPins(direction)[2]),
              ret |-> TB6612_OK]

motor_port_set_speed(m0, e, motor, speed_percent) ==
    LET m == [m0 EXCEPT !.calls = Append(@, <<"speed", motor, speed_percent>>)]
        channel == IF motor = TB6612_MOTOR_A THEN 1 ELSE 2
    IN  IF motor >= TB6612_MOTOR_MAX \/ speed_percent > 100
        THEN [m |-> m, ret |-> TB6612_ERROR_INVALID_PARAM]
        ELSE LET d == pwm_port_set_duty(m, channel, speed_percent)
             IN  IF d.ret # 0
                 THEN [m |-> d.m, ret |-> TB6612_ERROR_HARDWARE_FAULT]
                 ELSE IF speed_percent > 0
                 THEN [m |-> pwm_port_start(d.m, e, channel).m, ret |-> TB6612_OK]
                 ELSE [m |-> pwm_port_stop(d.m, e, channel).m, ret |-> TB6612_OK]

(* ------------------------------------------------------------------ *)
(* tb6612fng.c                                                         *)
(* ------------------------------------------------------------------ *)
tb6612_is_valid_motor(motor) ==
    motor >= TB6612_MOTOR_A /\ motor < TB6612_MOTOR_MAX

(* mutant of tb6612_is_valid_direction: no upper limit *)
tb6612_is_valid_direction_NoUpperBound(direction) ==
    direction >= TB6612_STOP

tb6612_is_valid_direction(direction) ==
    direction >= TB6612_STOP /\ direction <= TB6612_BRAKE

tb6612_is_valid_speed_NoUpperBound(speed_percent) ==
    speed_percent >= TB6612_MIN_SPEED_PERCENT

tb6612_is_valid_speed(speed_percent) ==
    speed_percent >= TB6612_MIN_SPEED_PERCENT /\
    speed_percent <= TB6612_MAX_SPEED_PERCENT

tb6612_set_default_config ==
    [pwm_frequency |-> TB6612_DEFAULT_PWM_FREQ,
     pwm_resolution |-> TB6612_DEFAULT_PWM_RESOLUTION,
     max_duty_cycle |-> TB6612_DEFAULT_MAX_DUTY,
     min_duty_cycle |-> TB6612_DEFAULT_MIN_DUTY]

tb6612_is_valid_config(config) ==
    /\ config # NULL
    /\ ~(config[1].pwm_frequency < 1000 \/ config[1].pwm_frequency > 20000)
    /\ ~(config[1].pwm_resolution < 8 \/ config[1].pwm_resolution > 16)
    /\ ~(config[1].max_duty_cycle > 100 \/
         config[1].min_duty_cycle >= config[1].max_duty_cycle)

tb6612_set_direction(m, motor, direction) ==
    IF ~m.drv.initialized
    THEN [m |-> m, ret |-> TB6612_ERROR_NOT_INITIALIZED]
    ELSE IF ~tb6612_is_valid_motor(motor)
    THEN [m |-> m, ret |-> TB6612_ERROR_INVALID_PARAM]
    ELSE IF ~tb6612_is_valid_direction(direction)
    THEN [m |-> m, ret |-> TB6612_ERROR_INVALID_PARAM]
    ELSE LET p == motor_port_set_direction(m, motor, direction)
         IN  IF p.ret # TB6612_OK THEN p
             ELSE IF direction = TB6612_STOP \/ direction = TB6612_BRAKE
             THEN [m |-> [p.m EXCEPT
                            !.drv.motor_status[motor].direction = direction,
                            !.drv.motor_status[motor].state = TB6612_STATE_IDLE,
                            !.drv.motor_status[motor].speed_percent = 0],
                   ret |-> TB6612_OK]
             ELSE [m |-> [p.m EXCEPT
                            !.drv.motor_status[motor].direction = direction,
                            !.drv.motor_status[motor].state = TB6612_STATE_RUNNING],
                   ret |-> TB6612_OK]

tb6612_set_speed(m, e, motor, speed_percent) ==
    IF ~m.drv.initialized
    THEN [m |-> m, ret |-> TB6612_ERROR_NOT_INITIALIZED]
    ELSE IF ~tb6612_is_valid_motor(motor)
    THEN [m |-> m, ret |-> TB6612_ERROR_INVALID_PARAM]
    ELSE IF ~tb6612_is_valid_speed(speed_percent)
    THEN [m |-> m, ret |-> TB6612_ERROR_INVALID_PARAM]
    ELSE LET p == motor_port_set_speed(m, e, motor, speed_percent)
         IN  IF p.ret # TB6612_OK THEN p
             ELSE [m |-> [p.m EXCEPT
                            !.drv.motor_status[motor].speed_percent = speed_percent,
                            !.drv.motor_status[motor].state =
                               IF speed_percent = 0 THEN TB6612_STATE_IDLE
                                                    ELSE TB6612_STATE_RUNNING],
                   ret |-> TB6612_OK]

tb6612_stop(m, motor) == tb6612_set_direction(m, motor, TB6612_STOP)

RECURSIVE stop_all_loop(_, _, _)
stop_all_loop(m, i, ret) ==
    IF i >= TB6612_MOTOR_MAX THEN [m |-> m, ret |-> ret]
    ELSE LET s == tb6612_stop(m, i)
         IN  stop_all_loop(s.m, i + 1, IF s.ret # TB6612_OK THEN s.ret ELSE ret)

tb6612_stop_all(m) ==
    IF ~m.drv.initialized
    THEN [m |-> m, ret |-> TB6612_ERROR_NOT_INITIALIZED]
    ELSE stop_all_loop(m, 0, TB6612_OK)

tb6612_init(m, e, config) ==
    IF m.drv.initialized THEN [m |-> m, ret |-> TB6612_OK]
    ELSE IF config # NULL /\ ~tb6612_is_valid_config(config)
    THEN [m |-> [m EXCEPT !.drv = ZeroDriver], ret |-> TB6612_ERROR_INVALID_PARAM]
    ELSE LET cfg == IF config # NULL THEN config[1] ELSE tb6612_set_default_config
             m1 == [m EXCEPT !.drv = [ZeroDriver EXCEPT !.config = cfg]]
             p == motor_port_init(m1, e, <<cfg>>)
         IN  IF p.ret # TB6612_OK THEN p
             ELSE [m |-> [p.m EXCEPT
                            !.drv.motor_status =
                               [i \in 0..(TB6612_MOTOR_MAX - 1) |->
                                  [direction |-> TB6612_STOP,
                                   state |-> TB6612_STATE_IDLE,
                                   speed_percent |-> 0]],
                            !.drv.initialized = TRUE],
                   ret |-> TB6612_OK]

tb6612_deinit(m, e) ==
    IF ~m.drv.initialized
    THEN [m |-> m, ret |-> TB6612_ERROR_NOT_INITIALIZED]
    ELSE LET s == tb6612_stop_all(m)
             p == motor_port_deinit(s.m, e)
         IN  [m |-> [p.m EXCEPT !.drv = ZeroDriver], ret |-> TB6612_OK]

tb6612_set_motor_pair_SpeedFirst(m, e, speed_a, dir_a, speed_b, dir_b) ==
    IF ~m.drv.initialized
    THEN [m |-> m, ret |-> TB6612_ERROR_NOT_INITIALIZED]
    ELSE IF ~tb6612_is_valid_speed(speed_a) \/ ~tb6612_is_valid_speed(speed_b)
    THEN [m |-> m, ret |-> TB6612_ERROR_INVALID_PARAM]
    ELSE IF ~tb6612_is_valid_direction(dir_a) \/ ~tb6612_is_valid_direction(dir_b)
    THEN [m |-> m, ret |-> TB6612_ERROR_INVALID_PARAM]
    ELSE LET s1 == tb6612_set_speed(m, e, TB6612_MOTOR_A, speed_a)
         IN  IF s1.ret # TB6612_OK THEN s1
             ELSE LET d1 == tb6612_set_direction(s1.m, TB6612_MOTOR_A, dir_a)
                  IN  IF d1.ret # TB6612_OK THEN d1
                      ELSE LET s2 == tb6612_set_speed(d1.m, e, TB6612_MOTOR_B, speed_b)
                           IN  IF s2.ret # TB6612_OK THEN s2
                               ELSE tb6612_set_direction(s2.m, TB6612_MOTOR_B, dir_b)

tb6612_set_motor_pair(m, e, speed_a, dir_a, speed_b, dir_b) ==
    IF ~m.drv.initialized
    THEN [m |-> m, ret |-> TB6612_ERROR_NOT_INITIALIZED]
    ELSE IF ~tb6612_is_valid_speed(speed_a) \/ ~tb6612_is_valid_speed(speed_b)
    THEN [m |-> m, ret |-> TB6612_ERROR_INVALID_PARAM]
    ELSE IF ~tb6612_is_valid_direction(dir_a) \/ ~tb6612_is_valid_direction(dir_b)
    THEN [m |-> m, ret |-> TB6612_ERROR_INVALID_PARAM]
    ELSE LET d1 == tb6612_set_direction(m, TB6612_MOTOR_A, dir_a)
         IN  IF d1.ret # TB6612_OK THEN d1
             ELSE LET d2 == tb6612_set_direction(d1.m, TB6612_MOTOR_B, dir_b)
                  IN  IF d2.ret # TB6612_OK THEN d2
                      ELSE LET s1 == tb6612_set_speed(d2.m, e, TB6612_MOTOR_A, speed_a)
                           IN  IF s1.ret # TB6612_OK THEN s1
                               ELSE tb6612_set_speed(s1.m, e, TB6612_MOTOR_B, speed_b)

tb6612_move_forward(m, e, speed) ==
    tb6612_set_motor_pair(m, e, speed, TB6612_FORWARD, speed, TB6612_FORWARD)

tb6612_move_backward(m, e, speed) ==
    tb6612_set_motor_pair(m, e, speed, TB6612_BACKWARD, speed, TB6612_BACKWARD)

tb6612_turn_left(m, e, speed) ==
    tb6612_set_motor_pair(m, e, 0, TB6612_STOP, speed, TB6612_FORWARD)

tb6612_turn_right(m, e, speed) ==
    tb6612_set_motor_pair(m, e, speed, TB6612_FORWARD, 0, TB6612_STOP)

(* ------------------------------------------------------------------ *)
(* motor_control_app.c                                                 *)
(* A result carries the app status, the machine, the return value and   *)
(* upd, the wheels whose status entry the operation wrote.              *)
(* ------------------------------------------------------------------ *)
is_valid_speed(speed) == speed <= 100

update_motor_status(r, motor, speed, direction) ==
    IF motor = 0
    THEN [r EXCEPT !.app.current_speed_a = speed,
                   !.app.current_dir_a = direction,
                   !.upd = @ \cup {0}]
    ELSE IF motor = 1
    THEN [r EXCEPT !.app.current_speed_b = speed,
                   !.app.current_dir_b = direction,
                   !.upd = @ \cup {1}]
    ELSE r

Res(app, m, ret) == [app |-> app, m |-> m, ret |-> ret, upd |-> {}]

(* mutant of motor_app_init: the result of tb6612_init is not checked *)
motor_app_init_IgnoresDriver(app, m, e) ==
    IF app.initialized THEN Res(app, m, 0)
    ELSE LET d == tb6612_init(m, e, NULL)
         IN  Res([ZeroAppStatus EXCEPT !.initialized = TRUE,
                                       !.motor_a_enabled = TRUE,
                                       !.motor_b_enabled = TRUE],
                 tb6612_stop_all(d.m).m, 0)

motor_app_init(app, m, e) ==
    IF app.initialized THEN Res(app, m, 0)
    ELSE LET d == tb6612_init(m, e, NULL)
         IN  IF d.ret # TB6612_OK THEN Res(ZeroAppStatus, d.m, -1)
             ELSE Res([ZeroAppStatus EXCEPT !.initialized = TRUE,
                                            !.motor_a_enabled = TRUE,
                                            !.motor_b_enabled = TRUE],
                      tb6612_stop_all(d.m).m, 0)

(* mutant of motor_app_deinit: the driver is shut down but the status   *)
(* record is not cleared                                                *)
motor_app_deinit_KeepsStatus(app, m, e) ==
    IF ~app.initialized THEN Res(app, m, 0)
    ELSE LET s == tb6612_stop_all(m)
             d == tb6612_deinit(s.m, e)
         IN  Res(app, d.m, 0)

motor_app_deinit(app, m, e) ==
    IF ~app.initialized THEN Res(app, m, 0)
    ELSE LET s == tb6612_stop_all(m)
             d == tb6612_deinit(s.m, e)
         IN  Res(ZeroAppStatus, d.m, 0)

motor_app_is_initialized(app) == app.initialized

(* the copy made into *status, or nothing when the call fails *)
motor_app_get_status(app, status) ==
    IF status = NULL THEN [out |-> <<>>, ret |-> -1]
    ELSE IF ~app.initialized THEN [out |-> <<>>, ret |-> -1]
    ELSE [out |-> <<app>>, ret |-> 0]

SignDir_ZeroForward(speed) ==
    IF speed >= 0 THEN TB6612_FORWARD ELSE TB6612_BACKWARD

SignDir(speed) ==
    IF speed > 0 THEN TB6612_FORWARD
    ELSE IF speed < 0 THEN TB6612_BACKWARD
    ELSE TB6612_STOP

SignStatus(speed) ==
    IF speed > 0 THEN 1 ELSE (IF speed < 0 THEN -1 ELSE 0)

(* mutant of motor_app_control_motors: the left wheel's status written *)
(* before the driver call                                              *)
motor_app_control_motors_LeftFirst(app, m, e, control) ==
    IF control = NULL THEN Res(app, m, -1)
    ELSE IF ~app.initialized THEN Res(app, m, -1)
    ELSE LET left_speed == ToUint16(abs(control[1].left_speed))
             right_speed == ToUint16(abs(control[1].right_speed))
             d == tb6612_set_motor_pair(m, e, left_speed,
                                        SignDir(control[1].left_speed),
                                        right_speed,
                                        SignDir(control[1].right_speed))
             early == update_motor_status(
                        Res(app, d.m, IF d.ret # TB6612_OK THEN -1 ELSE 0),
                        0, left_speed, SignStatus(control[1].left_speed))
         IN  IF d.ret # TB6612_OK THEN early
             ELSE update_motor_status(early, 1, right_speed,
                                      SignStatus(control[1].right_speed))

motor_app_control_motors(app, m, e, control) ==
    IF control = NULL THEN Res(app, m, -1)
    ELSE IF ~app.initialized THEN Res(app, m, -1)
    ELSE LET left_speed == ToUint16(abs(control[1].left_speed))
             left_dir == SignDir(control[1].left_speed)
             right_speed == ToUint16(abs(control[1].right_speed))
             right_dir == SignDir(control[1].right_speed)
             d == tb6612_set_motor_pair(m, e, left_speed, left_dir,
                                        right_speed, right_dir)
         IN  IF d.ret # TB6612_OK THEN Res(app, d.m, -1)
             ELSE update_motor_status(
                    update_motor_status(Res(app, d.m, 0), 0, left_speed,
                                        SignStatus(control[1].left_speed)),
                    1, right_speed, SignStatus(control[1].right_speed))

(* mutant of motor_app_move_forward: status written although the driver *)
(* call failed                                                          *)
motor_app_move_forward_IgnoresFailure(app, m, e, speed) ==
    IF ~is_valid_speed(speed) THEN Res(app, m, -1)
    ELSE IF ~app.initialized THEN Res(app, m, -1)
    ELSE LET d == tb6612_move_forward(m, e, speed)
         IN  update_motor_status(
               update_motor_status(
                 Res(app, d.m, IF d.ret # TB6612_OK THEN -1 ELSE 0),
                 0, speed, 1),
               1, speed, 1)

motor_app_move_forward(app, m, e, speed) ==
    IF ~is_valid_speed(speed) THEN Res(app, m, -1)
    ELSE IF ~app.initialized THEN Res(app, m, -1)
    ELSE LET d == tb6612_move_forward(m, e, speed)
         IN  IF d.ret # TB6612_OK THEN Res(app, d.m, -1)
             ELSE update_motor_status(
                    update_motor_status(Res(app, d.m, 0), 0, speed, 1),
                    1, speed, 1)

motor_app_move_backward(app, m, e, speed) ==
    IF ~is_valid_speed(speed) THEN Res(app, m, -1)
    ELSE IF ~app.initialized THEN Res(app, m, -1)
    ELSE LET d == tb6612_move_backward(m, e, speed)
         IN  IF d.ret # TB6612_OK THEN Res(app, d.m, -1)
             ELSE update_motor_status(
                    update_motor_status(Res(app, d.m, 0), 0, speed, -1),
                    1, speed, -1)

motor_app_turn_left(app, m, e, speed) ==
    IF ~is_valid_speed(speed) THEN Res(app, m, -1)
    ELSE IF ~app.initialized THEN Res(app, m, -1)
    ELSE LET d == tb6612_turn_left(m, e, speed)
         IN  IF d.ret # TB6612_OK THEN Res(app, d.m, -1)
             ELSE update_motor_status(
                    update_motor_status(Res(app, d.m, 0), 0, speed, -1),
                    1, speed, 1)

motor_app_turn_right(app, m, e, speed) ==
    IF ~is_valid_speed(speed) THEN Res(app, m, -1)
    ELSE IF ~app.initialized THEN Res(app, m, -1)
    ELSE LET d == tb6612_turn_right(m, e, speed)
         IN  IF d.ret # TB6612_OK THEN Res(app, d.m, -1)
             ELSE update_motor_status(
                    update_motor_status(Res(app, d.m, 0), 0, speed, 1),
                    1, speed, -1)

motor_app_stop_all_NoInitCheck(app, m) ==
    LET d == tb6612_stop_all(m)
    IN  IF d.ret # TB6612_OK THEN Res(app, d.m, -1)
        ELSE update_motor_status(
               update_motor_status(Res(app, d.m, 0), 0, 0, 0),
               1, 0, 0)

motor_app_stop_all(app, m) ==
    IF ~app.initialized THEN Res(app, m, -1)
    ELSE LET d == tb6612_stop_all(m)
         IN  IF d.ret # TB6612_OK THEN Res(app, d.m, -1)
             ELSE update_motor_status(
                    update_motor_status(Res(app, d.m, 0), 0, 0, 0),
                    1, 0, 0)

(* ------------------------------------------------------------------ *)
(* jy61p_app.c : callback and flag byte                                *)
(* ------------------------------------------------------------------ *)
ACC_UPDATE == 1
GYRO_UPDATE == 2
ANGLE_UPDATE == 4
MAG_UPDATE == 8
READ_UPDATE == 128

(* register numbers of the sensor's register map *)
AX == 52
AZ == 54
GZ == 57
HZ == 60
Yaw == 63

SCAN_ADDR_END == 127
SCAN_RETRIES == 2
SCAN_READ_LEN == 3
DEFAULT_ADDR == 80
CMD_NONE == 255

RECURSIVE BitOr(_, _)
BitOr(a, b) ==
    IF a = 0 THEN b
    ELSE IF b = 0 THEN a
    ELSE (IF a % 2 = 1 \/ b % 2 = 1 THEN 1 ELSE 0)
         + 2 * BitOr(a \div 2, b \div 2)

HasBit(f, b) == (f \div b) % 2 = 1

(* f & ~b for a single-bit mask b *)
ClearBit(f, b) == IF HasBit(f, b) THEN f - b ELSE f

UpdateBits == {ACC_UPDATE, GYRO_UPDATE, ANGLE_UPDATE, MAG_UPDATE, READ_UPDATE}

BitsOf(f) == {b \in UpdateBits : HasBit(f, b)}

(* mutant of jy61p_sensor_data_process: the register number is not      *)
(* advanced inside the loop                                             *)
RECURSIVE jy61p_sensor_data_process_NoIncrement(_, _, _)
jy61p_sensor_data_process_NoIncrement(flags, uiReg, uiRegNum) ==
    IF uiRegNum = 0 THEN flags
    ELSE LET bit == CASE uiReg = AZ  -> ACC_UPDATE
                      [] uiReg = GZ  -> GYRO_UPDATE
                      [] uiReg = HZ  -> MAG_UPDATE
                      [] uiReg = Yaw -> ANGLE_UPDATE
                      [] OTHER       -> READ_UPDATE
         IN  jy61p_sensor_data_process_NoIncrement(BitOr(flags, bit), uiReg,
                                                   uiRegNum - 1)

RECURSIVE jy61p_sensor_data_process(_, _, _)
jy61p_sensor_data_process(flags, uiReg, uiRegNum) ==
    IF uiRegNum = 0 THEN flags
    ELSE LET bit == CASE uiReg = AZ  -> ACC_UPDATE
                      [] uiReg = GZ  -> GYRO_UPDATE
                      [] uiReg = HZ  -> MAG_UPDATE
                      [] uiReg = Yaw -> ANGLE_UPDATE
                      [] OTHER       -> READ_UPDATE
         IN  jy61p_sensor_data_process(BitOr(flags, bit), uiReg + 1, uiRegNum - 1)

ZeroAppCtx ==
    [data_update_flags |-> 0, cmd_received |-> 0,
     sensor_found |-> 0, sensor_addr |-> 0]

(* ------------------------------------------------------------------ *)
(* jy61p_app.c : the application interface                             *)
(* ------------------------------------------------------------------ *)
ADDR_NOT_FOUND == 255

(* the copy made into *data, or nothing when the call fails *)
jy61p_get_sensor_data(ctx, data) ==
    IF data = NULL THEN [out |-> <<>>, ret |-> -1]
    ELSE IF ctx.sensor_found = 0 THEN [out |-> <<>>, ret |-> -1]
    ELSE [out |-> <<"sensor_data">>, ret |-> 0]

jy61p_is_sensor_connected(ctx) == ctx.sensor_found

(* mutant of jy61p_get_sensor_address: the stored address whatever the  *)
(* scan's outcome                                                       *)
jy61p_get_sensor_address_Unguarded(ctx) == ctx.sensor_addr

jy61p_get_sensor_address(ctx) ==
    IF ctx.sensor_found # 0 THEN ctx.sensor_addr ELSE ADDR_NOT_FOUND

(* ------------------------------------------------------------------ *)
(* jy61p_app.c : command reception and command processing              *)
(* ------------------------------------------------------------------ *)
RX_BUF_SIZE == 50
CHAR_CR == 13
CHAR_LF == 10

ZeroRxBuf == [i \in 0..(RX_BUF_SIZE - 1) |-> 0]

ToUint8(n) == n % 256

(* mutant of RxFrameEnd: the line feed alone ends a command *)
RxFrameEnd_LfOnly(buf, cnt) == buf[cnt - 1] = CHAR_LF

(* (s_ucData[s_ucRxCnt - 2] == '\r') && (s_ucData[s_ucRxCnt - 1] == '\n') *)
RxFrameEnd(buf, cnt) == buf[cnt - 2] = CHAR_CR /\ buf[cnt - 1] = CHAR_LF

(* mutant of jy61p_cmd_data_received: the overflow test lets the count  *)
(* reach the buffer size                                                *)
jy61p_cmd_data_received_LateOverflow(buf, cnt, cmd, ucData) ==
    LET buf1 == IF cnt \in DOMAIN buf THEN [buf EXCEPT ![cnt] = ucData]
                ELSE buf
        cnt1 == ToUint8(cnt + 1)
        r(b, c, m, l, d) == [buf |-> b, cnt |-> c, cmd |-> m, latched |-> l,
                             dropped |-> d, idx |-> cnt]
    IN  IF cnt1 < 3 THEN r(buf1, cnt1, cmd, FALSE, FALSE)
        ELSE IF cnt1 > RX_BUF_SIZE THEN r(buf1, 0, cmd, FALSE, TRUE)
        ELSE IF RxFrameEnd(buf1, cnt1)
             THEN r(ZeroRxBuf, 0, buf1[cnt1 - 3], TRUE, FALSE)
             ELSE r(buf1, cnt1, cmd, FALSE, FALSE)

(* s_ucData[s_ucRxCnt++] = ucData, then the length, overflow and CR LF  *)
(* tests; idx is the index written (outside the array it is a write     *)
(* past the buffer, which the model records and leaves without effect)  *)
jy61p_cmd_data_received(buf, cnt, cmd, ucData) ==
    LET buf1 == IF cnt \in DOMAIN buf THEN [buf EXCEPT ![cnt] = ucData]
                ELSE buf
        cnt1 == ToUint8(cnt + 1)
        r(b, c, m, l, d) == [buf |-> b, cnt |-> c, cmd |-> m, latched |-> l,
                             dropped |-> d, idx |-> cnt]
    IN  IF cnt1 < 3 THEN r(buf1, cnt1, cmd, FALSE, FALSE)
        ELSE IF cnt1 >= RX_BUF_SIZE THEN r(buf1, 0, cmd, FALSE, TRUE)
        ELSE IF RxFrameEnd(buf1, cnt1)
             THEN r(ZeroRxBuf, 0, buf1[cnt1 - 3], TRUE, FALSE)
             ELSE r(buf1, cnt1, cmd, FALSE, FALSE)

(* the switch of jy61p_cmd_process: what is called for a command byte   *)
CmdAction(c) ==
    CASE c = 97  -> "WitStartAccCali"
      [] c = 109 -> "WitStartMagCali"
      [] c = 101 -> "WitStopMagCali"
      [] c = 117 -> "WitSetBandwidth(BANDWIDTH_5HZ)"
      [] c = 85  -> "WitSetBandwidth(BANDWIDTH_256HZ)"
      [] c = 66  -> "WitSetUartBaud(WIT_BAUD_115200)"
      [] c = 98  -> "WitSetUartBaud(WIT_BAUD_9600)"
      [] c = 104 -> "jy61p_show_help"
      [] c = CMD_NONE -> "return"
      [] OTHER   -> "printf(Unknown command)"

(* a whole call of jy61p_cmd_process with nothing interleaved *)
jy61p_cmd_process(cmd) ==
    IF cmd = CMD_NONE THEN [out |-> CmdAction(cmd), cmd |-> cmd]
    ELSE [out |-> CmdAction(cmd), cmd |-> CMD_NONE]

(* ------------------------------------------------------------------ *)
(* i2c_port.c                                                          *)
(* ------------------------------------------------------------------ *)
I2C_TIMEOUT_MS == 1000
I2C_RETRY_COUNT == 3
I2C_DEVICE_ADDR_SHIFT == 1

(* busy_ms: the number of 1 ms polls that find I2C_FLAG_BUSY set *)
i2c_wait_ready(busy_ms) ==
    LET timeout == I2C_TIMEOUT_MS
                   - (IF busy_ms < I2C_TIMEOUT_MS THEN busy_ms ELSE I2C_TIMEOUT_MS)
    IN  IF timeout > 0 THEN "HAL_OK" ELSE "HAL_TIMEOUT"

(* hw = [instance, busy_ms]: hi2c1.Instance and the bus at the call *)
wit_port_i2c_init(initialized, hw) ==
    IF initialized # 0 THEN [initialized |-> initialized, ret |-> 0]
    ELSE IF hw.instance = NULL THEN [initialized |-> initialized, ret |-> -1]
    ELSE IF i2c_wait_ready(hw.busy_ms) # "HAL_OK"
    THEN [initialized |-> initialized, ret |-> -1]
    ELSE [initialized |-> 1, ret |-> 0]

(* status[k]: what the k-th HAL transfer of this call returns; xfers:   *)
(* the transfers issued so far                                          *)
RECURSIVE i2c_mem_write_with_retry(_, _, _, _, _, _)
i2c_mem_write_with_retry(dev_addr, reg_addr, size, status, retry_count, xfers) ==
    IF retry_count > 0
    THEN LET x == Append(xfers, <<"HAL_I2C_Mem_Write",
                                  (dev_addr * (2 ^ I2C_DEVICE_ADDR_SHIFT)) % 65536,
                                  reg_addr, size>>)
         IN  IF status[Len(x)] = "HAL_OK" THEN [ret |-> 1, xfers |-> x]
             ELSE i2c_mem_write_with_retry(dev_addr, reg_addr, size, status,
                                           retry_count - 1, x)
    ELSE [ret |-> 0, xfers |-> xfers]

RECURSIVE i2c_mem_read_with_retry(_, _, _, _, _, _)
i2c_mem_read_with_retry(dev_addr, reg_addr, size, status, retry_count, xfers) ==
    IF retry_count > 0
    THEN LET x == Append(xfers, <<"HAL_I2C_Mem_Read",
                                  (dev_addr * (2 ^ I2C_DEVICE_ADDR_SHIFT)) % 65536,
                                  reg_addr, size>>)
         IN  IF status[Len(x)] = "HAL_OK" THEN [ret |-> 1, xfers |-> x]
             ELSE i2c_mem_read_with_retry(dev_addr, reg_addr, size, status,
                                          retry_count - 1, x)
    ELSE [ret |-> 0, xfers |-> xfers]

(* mutant of wit_port_i2c_write: one retry more than I2C_RETRY_COUNT *)
wit_port_i2c_write_ExtraRetry(initialized, hw, ucAddr, ucReg, p_ucVal, uiLen, status) ==
    IF p_ucVal = NULL \/ uiLen = 0
    THEN [initialized |-> initialized, ret |-> 0, xfers |-> <<>>]
    ELSE LET i == IF initialized = 0 THEN wit_port_i2c_init(initialized, hw)
                  ELSE [initialized |-> initialized, ret |-> 0]
         IN  IF i.ret # 0
             THEN [initialized |-> i.initialized, ret |-> 0, xfers |-> <<>>]
             ELSE LET w == i2c_mem_write_with_retry(ucAddr, ucReg, ToUint16(uiLen),
                                                    status, I2C_RETRY_COUNT + 1, <<>>)
                  IN  [initialized |-> i.initialized, ret |-> w.ret,
                       xfers |-> w.xfers]

wit_port_i2c_write(initialized, hw, ucAddr, ucReg, p_ucVal, uiLen, status) ==
    IF p_ucVal = NULL \/ uiLen = 0
    THEN [initialized |-> initialized, ret |-> 0, xfers |-> <<>>]
    ELSE LET i == IF initialized = 0 THEN wit_port_i2c_init(initialized, hw)
                  ELSE [initialized |-> initialized, ret |-> 0]
         IN  IF i.ret # 0
             THEN [initialized |-> i.initialized, ret |-> 0, xfers |-> <<>>]
             ELSE LET w == i2c_mem_write_with_retry(ucAddr, ucReg, ToUint16(uiLen),
                                                    status, I2C_RETRY_COUNT, <<>>)
                  IN  [initialized |-> i.initialized, ret |-> w.ret,
                       xfers |-> w.xfers]

wit_port_i2c_read(initialized, hw, ucAddr, ucReg, p_ucVal, uiLen, status) ==
    IF p_ucVal = NULL \/ uiLen = 0
    THEN [initialized |-> initialized, ret |-> 0, xfers |-> <<>>]
    ELSE LET i == IF initialized = 0 THEN wit_port_i2c_init(initialized, hw)
                  ELSE [initialized |-> initialized, ret |-> 0]
         IN  IF i.ret # 0
             THEN [initialized |-> i.initialized, ret |-> 0, xfers |-> <<>>]
             ELSE LET r == i2c_mem_read_with_retry(ucAddr, ucReg, ToUint16(uiLen),
                                                   status, I2C_RETRY_COUNT, <<>>)
                  IN  [initialized |-> i.initialized, ret |-> r.ret,
                       xfers |-> r.xfers]

(* ------------------------------------------------------------------ *)
(* State                                                               *)
(* ------------------------------------------------------------------ *)
VARIABLES
    g_motor_app_status,   \* motor_control_app.c static status
    g_tb6612_driver,      \* tb6612fng.c static driver state
    g_pwm_state,          \* motor_port.c static PWM state
    pins,                 \* levels of AIN1, AIN2, BIN1, BIN2
    ccr,                  \* TIM1 compare registers of channels 1, 2
    pwm_on,               \* PWM output running on channels 1, 2
    last,                 \* history of the last motor operation (out: the
                          \* buffer motor_app_get_status filled)
    g_app_ctx,            \* jy61p_app.c static context
    wit_addr,             \* address the sensor SDK is bound to
    scan_pc,              \* position of the main thread of jy61p_app_main
    addr,                 \* loop variable of jy61p_sensor_scan
    retry,                \* loop variable of jy61p_sensor_scan
    pending,              \* a response is on its way to the callback
    devices,              \* bus addresses at which a sensor answers
    misses,               \* attempts a present sensor will still not answer
    misses0,              \* the initial value of misses
    binds,                \* history: addresses WitInit was called with
    probes,               \* history: <<address, retry, response>> per attempt
    scan_ret,             \* return value of jy61p_sensor_scan
    cb_seen,              \* history: the callback ran since the last reset
                          \* of the flag byte by jy61p_sensor_scan
    s_ucData,             \* jy61p_cmd_data_received static receive buffer
    s_ucRxCnt,            \* jy61p_cmd_data_received static write index
    acc,                  \* history: bytes received since the last reset of
                          \* the write index
    rx_last,              \* history: outcome of the last received byte
    cmd_pc,               \* position of the main loop in jy61p_cmd_process
    cmd_fresh,            \* history: cmd_received holds a latched command
                          \* no jy61p_cmd_process has dispatched yet
    cmd_last,             \* history: the last step of jy61p_cmd_process
                          \* (tick alternates with every step)
    conv_pc,              \* position of the main loop in
                          \* jy61p_data_convert_and_print
    conv_tmp,             \* the flag byte loaded by a pending &= ~bit
    unseen,               \* history: bits the callback set that no flag
                          \* test of the main loop has seen set yet
    s_i2c_initialized,    \* i2c_port.c static initialisation flag
    i2c_last              \* history of the last I2C port call

motorVars == <<g_motor_app_status, g_tb6612_driver, g_pwm_state, pins, ccr,
               pwm_on, last>>

scanVars == <<g_app_ctx, wit_addr, scan_pc, addr, retry, pending, devices,
              misses, misses0, binds, probes, scan_ret, cb_seen>>

convVars == <<conv_pc, conv_tmp, unseen>>

isrVars == <<s_ucData, s_ucRxCnt, acc, rx_last, cmd_pc, cmd_fresh, cmd_last,
             convVars>>

busVars == <<s_i2c_initialized, i2c_last>>

vars == <<motorVars, scanVars, isrVars, busVars>>

(* ------------------------------------------------------------------ *)
(* Inputs                                                              *)
(* ------------------------------------------------------------------ *)
Int16Valid == {-100, 0 - SpeedLow, 0, SpeedLow, 100}

Int16Invalid == {-32768, -101, 101, 32767}

Uint16Inputs == {0, SpeedLow, 100, 101, SpeedOver}

(* every pair of in-range speeds; an out-of-range speed on either side  *)
(* or on both                                                           *)
ControlInputs ==
    {NULL}
    \cup {<<[left_speed |-> l, right_speed |-> r]>> :
            l \in Int16Valid, r \in Int16Valid}
    \cup {<<[left_speed |-> b, right_speed |-> SpeedLow]>> : b \in Int16Invalid}
    \cup {<<[left_speed |-> SpeedLow, right_speed |-> b]>> : b \in Int16Invalid}
    \cup {<<[left_speed |-> b, right_speed |-> b]>> : b \in Int16Invalid}

(* outcomes of the HAL calls of one operation: all succeed, or one of   *)
(* HAL_TIM_PWM_Start/Stop on channel 1, on channel 2, HAL_TIM_PWM_Init   *)
(* fails                                                                *)
EnvOk == [tim_init_ok |-> TRUE, ch_ok |-> [c \in 1..2 |-> TRUE]]

EnvsRun ==
    {EnvOk} \cup {[EnvOk EXCEPT !.ch_ok[c] = FALSE] : c \in 1..2}

Envs == EnvsRun \cup {[EnvOk EXCEPT !.tim_init_ok = FALSE]}

(* the inputs of the fault specification: one speed per sign, any HAL   *)
(* outcome                                                              *)
FaultControlInputs ==
    {NULL,
     <<[left_speed |-> 0 - SpeedLow, right_speed |-> SpeedLow]>>,
     <<[left_speed |-> SpeedLow, right_speed |-> 0]>>}

FaultSpeeds == {0, SpeedLow}

TestConfig ==
    [pwm_frequency |-> 10000, pwm_resolution |-> 10,
     max_duty_cycle |-> 95, min_duty_cycle |-> 5]

(* the machine an operation starts from *)
Mach ==
    [drv |-> g_tb6612_driver, pwm |-> g_pwm_state,
     pins |-> pins, ccr |-> ccr, on |-> pwm_on,
     calls |-> <<>>, faults |-> {},
     hw |-> <<[pins |-> pins, ccr |-> ccr, on |-> pwm_on]>>]

Do(op, arg, r) ==
    /\ g_motor_app_status' = r.app
    /\ g_tb6612_driver' = r.m.drv
    /\ g_pwm_state' = r.m.pwm
    /\ pins' = r.m.pins
    /\ ccr' = r.m.ccr
    /\ pwm_on' = r.m.on
    /\ last' = [op |-> op, arg |-> arg, ret |-> r.ret, upd |-> r.upd,
                calls |-> r.m.calls, hw |-> r.m.hw, faults |-> r.m.faults,
                out |-> <<>>]
    /\ UNCHANGED <<scanVars, isrVars, busVars>>

MotorInit ==
    /\ g_motor_app_status = ZeroAppStatus
    /\ g_tb6612_driver = ZeroDriver
    /\ g_pwm_state = ZeroPwmState
    /\ pins = [p \in PinNames |-> 0]
    /\ ccr = [c \in 1..2 |-> 0]
    /\ pwm_on = [c \in 1..2 |-> FALSE]
    /\ last = [op |-> "none", arg |-> <<>>, ret |-> 0, upd |-> {},
               calls |-> <<>>, faults |-> {}, out |-> <<>>,
               hw |-> <<[pins |-> [p \in PinNames |-> 0],
                         ccr |-> [c \in 1..2 |-> 0],
                         on |-> [c \in 1..2 |-> FALSE]]>>]

ScanInitWith(D, k) ==
    /\ g_app_ctx = ZeroAppCtx
    /\ wit_addr = -1
    /\ scan_pc = "boot"
    /\ addr = 0
    /\ retry = 0
    /\ pending = FALSE
    /\ devices = D
    /\ misses = k
    /\ misses0 = k
    /\ binds = <<>>
    /\ probes = <<>>
    /\ scan_ret = 0
    /\ cb_seen = FALSE

(* ------------------------------------------------------------------ *)
(* Motor operations                                                    *)
(* ------------------------------------------------------------------ *)
MotorAppInit(envs) ==
    \E e \in envs :
        Do("motor_app_init", <<>>, motor_app_init(g_motor_app_status, Mach, e))

MotorAppDeinit(envs) ==
    \E e \in envs :
        Do("motor_app_deinit", <<>>, motor_app_deinit(g_motor_app_status, Mach, e))

MotorAppGetStatus ==
    \E status \in {NULL, <<"buf">>} :
        LET g == motor_app_get_status(g_motor_app_status, status)
        IN  /\ last' = [op |-> "motor_app_get_status", arg |-> <<status>>,
                        ret |-> g.ret, upd |-> {}, calls |-> <<>>,
                        faults |-> {}, out |-> g.out,
                        hw |-> <<[pins |-> pins, ccr |-> ccr, on |-> pwm_on]>>]
            /\ UNCHANGED <<g_motor_app_status, g_tb6612_driver, g_pwm_state,
                           pins, ccr, pwm_on, scanVars, isrVars, busVars>>

MotorAppControlMotors(inputs, envs) ==
    \E control \in inputs, e \in envs :
        Do("motor_app_control_motors", <<control>>,
           motor_app_control_motors(g_motor_app_status, Mach, e, control))

MotorAppMoveForward(inputs, envs) ==
    \E speed \in inputs, e \in envs :
        Do("motor_app_move_forward", <<speed>>,
           motor_app_move_forward(g_motor_app_status, Mach, e, speed))

MotorAppMoveBackward(inputs, envs) ==
    \E speed \in inputs, e \in envs :
        Do("motor_app_move_backward", <<speed>>,
           motor_app_move_backward(g_motor_app_status, Mach, e, speed))

MotorAppTurnLeft(inputs, envs) ==
    \E speed \in inputs, e \in envs :
        Do("motor_app_turn_left", <<speed>>,
           motor_app_turn_left(g_motor_app_status, Mach, e, speed))

MotorAppTurnRight(inputs, envs) ==
    \E speed \in inputs, e \in envs :
        Do("motor_app_turn_right", <<speed>>,
           motor_app_turn_right(g_motor_app_status, Mach, e, speed))

MotorAppStopAll ==
    Do("motor_app_stop_all", <<>>, motor_app_stop_all(g_motor_app_status, Mach))

(* the port layer used directly, as motor_port_test.c does *)
MotorPortInit ==
    \E e \in Envs :
        LET p == motor_port_init(Mach, e, <<TestConfig>>)
        IN  Do("motor_port_init", <<>>, Res(g_motor_app_status, p.m, p.ret))

MotorPortDeinit ==
    \E e \in EnvsRun :
        LET p == motor_port_deinit(Mach, e)
        IN  Do("motor_port_deinit", <<>>, Res(g_motor_app_status, p.m, p.ret))

(* the driver used directly, without the application layer *)
Tb6612Init ==
    \E e \in Envs :
        LET d == tb6612_init(Mach, e, NULL)
        IN  Do("tb6612_init", <<>>, Res(g_motor_app_status, d.m, d.ret))

Tb6612Deinit ==
    \E e \in EnvsRun :
        LET d == tb6612_deinit(Mach, e)
        IN  Do("tb6612_deinit", <<>>, Res(g_motor_app_status, d.m, d.ret))

IsrInit ==
    /\ s_ucData = ZeroRxBuf
    /\ s_ucRxCnt = 0
    /\ acc = <<>>
    /\ rx_last = [byte |-> 0, latched |-> FALSE, dropped |-> FALSE, idx |-> 0,
                  n |-> 0]
    /\ cmd_pc = "idle"
    /\ cmd_fresh = FALSE
    /\ cmd_last = [ev |-> "none", ch |-> CMD_NONE, out |-> "none",
                   tick |-> 0]
    /\ conv_pc = <<"idle", 0>>
    /\ conv_tmp = 0
    /\ unseen = {}

BusInit ==
    /\ s_i2c_initialized = 0
    /\ i2c_last = [op |-> "none", arg |-> <<>>, hw |-> <<>>, status |-> <<>>,
                   ret |-> 0, xfers |-> <<>>]

Init == MotorInit /\ ScanInitWith({}, 0) /\ IsrInit /\ BusInit

(* Spec: the application interface over working hardware, with the full *)
(* range of speed inputs.                                               *)
Next ==
    \/ MotorAppInit({EnvOk})
    \/ MotorAppDeinit({EnvOk})
    \/ MotorAppGetStatus
    \/ MotorAppControlMotors(ControlInputs, {EnvOk})
    \/ MotorAppMoveForward(Uint16Inputs, {EnvOk})
    \/ MotorAppMoveBackward(Uint16Inputs, {EnvOk})
    \/ MotorAppTurnLeft(Uint16Inputs, {EnvOk})
    \/ MotorAppTurnRight(Uint16Inputs, {EnvOk})
    \/ MotorAppStopAll

Spec == Init /\ [][Next]_vars

(* SpecFault: the same interface when HAL calls may fail and the port   *)
(* layer is also driven directly.                                       *)
NextFault ==
    \/ MotorAppInit(Envs)
    \/ MotorAppDeinit(EnvsRun)
    \/ MotorAppGetStatus
    \/ MotorAppControlMotors(FaultControlInputs, EnvsRun)
    \/ MotorAppMoveForward(FaultSpeeds, EnvsRun)
    \/ MotorAppMoveBackward(FaultSpeeds, EnvsRun)
    \/ MotorAppTurnLeft(FaultSpeeds, EnvsRun)
    \/ MotorAppTurnRight(FaultSpeeds, EnvsRun)
    \/ MotorAppStopAll
    \/ MotorPortInit
    \/ MotorPortDeinit
    \/ Tb6612Init
    \/ Tb6612Deinit

SpecFault == Init /\ [][NextFault]_vars

(* SpecAppFault: only the application interface is called, and HAL      *)
(* calls may fail.                                                      *)
NextAppFault ==
    \/ MotorAppInit(Envs)
    \/ MotorAppDeinit(EnvsRun)
    \/ MotorAppGetStatus
    \/ MotorAppControlMotors(FaultControlInputs, EnvsRun)
    \/ MotorAppMoveForward(FaultSpeeds, EnvsRun)
    \/ MotorAppMoveBackward(FaultSpeeds, EnvsRun)
    \/ MotorAppTurnLeft(FaultSpeeds, EnvsRun)
    \/ MotorAppTurnRight(FaultSpeeds, EnvsRun)
    \/ MotorAppStopAll

SpecAppFault == Init /\ [][NextAppFault]_vars

(* ------------------------------------------------------------------ *)
(* The driver and the port layer called directly                       *)
(* ------------------------------------------------------------------ *)
MotorIds == {TB6612_MOTOR_A, TB6612_MOTOR_B, TB6612_MOTOR_MAX}

Directions == TB6612_STOP..(TB6612_BRAKE + 1)

DriverSpeeds == {0, SpeedLow, 101}

PairSpeeds == {SpeedLow, 101}

PairDirs == {TB6612_FORWARD, TB6612_BRAKE + 1}

Tb6612SetDirection(motors, dirs) ==
    \E motor \in motors, direction \in dirs :
        LET d == tb6612_set_direction(Mach, motor, direction)
        IN  Do("tb6612_set_direction", <<motor, direction>>,
               Res(g_motor_app_status, d.m, d.ret))

Tb6612SetSpeed(motors, speeds, envs) ==
    \E motor \in motors, speed_percent \in speeds, e \in envs :
        LET d == tb6612_set_speed(Mach, e, motor, speed_percent)
        IN  Do("tb6612_set_speed", <<motor, speed_percent>>,
               Res(g_motor_app_status, d.m, d.ret))

Tb6612SetMotorPair(speeds, dirs, envs) ==
    \E speed_a \in speeds, dir_a \in dirs, speed_b \in speeds,
       dir_b \in dirs, e \in envs :
        LET d == tb6612_set_motor_pair(Mach, e, speed_a, dir_a, speed_b, dir_b)
        IN  Do("tb6612_set_motor_pair", <<speed_a, dir_a, speed_b, dir_b>>,
               Res(g_motor_app_status, d.m, d.ret))

Tb6612Stop(motors) ==
    \E motor \in motors :
        LET d == tb6612_stop(Mach, motor)
        IN  Do("tb6612_stop", <<motor>>, Res(g_motor_app_status, d.m, d.ret))

Tb6612StopAll ==
    LET d == tb6612_stop_all(Mach)
    IN  Do("tb6612_stop_all", <<>>, Res(g_motor_app_status, d.m, d.ret))

MotorPortSetDirection(motors, dirs) ==
    \E motor \in motors, direction \in dirs :
        LET p == motor_port_set_direction(Mach, motor, direction)
        IN  Do("motor_port_set_direction", <<motor, direction>>,
               Res(g_motor_app_status, p.m, p.ret))

MotorPortSetSpeed(motors, speeds, envs) ==
    \E motor \in motors, speed_percent \in speeds, e \in envs :
        LET p == motor_port_set_speed(Mach, e, motor, speed_percent)
        IN  Do("motor_port_set_speed", <<motor, speed_percent>>,
               Res(g_motor_app_status, p.m, p.ret))

NextDriver ==
    \/ Tb6612Init
    \/ Tb6612Deinit
    \/ Tb6612SetDirection(MotorIds, Directions)
    \/ Tb6612SetSpeed(MotorIds, DriverSpeeds, {EnvOk})
    \/ Tb6612SetMotorPair(PairSpeeds, PairDirs, {EnvOk})
    \/ Tb6612Stop(MotorIds)
    \/ Tb6612StopAll

SpecDriver == Init /\ [][NextDriver]_vars

NextPort ==
    \/ MotorPortInit
    \/ MotorPortDeinit
    \/ MotorPortSetDirection(MotorIds, Directions)
    \/ MotorPortSetSpeed({TB6612_MOTOR_A, TB6612_MOTOR_B}, {0, SpeedLow}, {EnvOk})

SpecPort == Init /\ [][NextPort]_vars

(* ------------------------------------------------------------------ *)
(* pwm_port_init called once with each frequency                       *)
(* ------------------------------------------------------------------ *)
(* every accepted frequency and the first rejected one on either side *)
PwmFrequencies == (PWM_FREQ_MIN - 1)..(PWM_FREQ_MAX + 1)

(* the state before the call, the frequency to pass held in last.arg *)
InitPwm ==
    /\ \E frequency \in PwmFrequencies :
         last = [op |-> "none", arg |-> <<frequency>>, ret |-> 0, upd |-> {},
                 calls |-> <<>>, faults |-> {}, out |-> <<>>,
                 hw |-> <<[pins |-> [p \in PinNames |-> 0],
                           ccr |-> [c \in 1..2 |-> 0],
                           on |-> [c \in 1..2 |-> FALSE]]>>]
    /\ g_motor_app_status = ZeroAppStatus
    /\ g_tb6612_driver = ZeroDriver
    /\ g_pwm_state = ZeroPwmState
    /\ pins = [p \in PinNames |-> 0]
    /\ ccr = [c \in 1..2 |-> 0]
    /\ pwm_on = [c \in 1..2 |-> FALSE]
    /\ ScanInitWith({}, 0)
    /\ IsrInit
    /\ BusInit

PwmPortInit ==
    /\ last.op = "none"
    /\ LET p == pwm_port_init(Mach, EnvOk, last.arg[1])
       IN  Do("pwm_port_init", last.arg, Res(g_motor_app_status, p.m, p.ret))

SpecPwm == InitPwm /\ [][PwmPortInit]_vars

(* ------------------------------------------------------------------ *)
(* The I2C port called by the sensor SDK                               *)
(* ------------------------------------------------------------------ *)
(* hi2c1 configured or not, the bus free, busy for a while, or busy for *)
(* the whole time-out                                                   *)
I2cHw ==
    [instance : {NULL, <<"I2C1">>}, busy_ms : {0, I2C_TIMEOUT_MS - 1, I2C_TIMEOUT_MS}]

HalStatus == [1..MaxXfers -> {"HAL_OK", "HAL_ERROR"}]

I2cArgs ==
    { <<ucAddr, ucReg, p_ucVal, uiLen>> :
        ucAddr \in {DEFAULT_ADDR}, ucReg \in {AX},
        p_ucVal \in {NULL, <<"buf">>}, uiLen \in {0, 2 * SCAN_READ_LEN, 65536} }

I2cCall(op, arg, hw, status, r) ==
    /\ s_i2c_initialized' = r.initialized
    /\ i2c_last' = [op |-> op, arg |-> arg, hw |-> hw, status |-> status,
                    ret |-> r.ret, xfers |-> r.xfers]
    /\ UNCHANGED <<motorVars, scanVars, isrVars>>

WitPortI2cInit ==
    \E hw \in I2cHw :
        LET r == wit_port_i2c_init(s_i2c_initialized, hw)
        IN  I2cCall("wit_port_i2c_init", <<>>, hw, <<>>,
                    [initialized |-> r.initialized, ret |-> r.ret, xfers |-> <<>>])

WitPortI2cWrite ==
    \E a \in I2cArgs, hw \in I2cHw, status \in HalStatus :
        I2cCall("wit_port_i2c_write", a, hw, status,
                wit_port_i2c_write(s_i2c_initialized, hw, a[1], a[2], a[3], a[4],
                                   status))

WitPortI2cRead ==
    \E a \in I2cArgs, hw \in I2cHw, status \in HalStatus :
        I2cCall("wit_port_i2c_read", a, hw, status,
                wit_port_i2c_read(s_i2c_initialized, hw, a[1], a[2], a[3], a[4],
                                  status))

NextI2c ==
    \/ WitPortI2cInit
    \/ WitPortI2cWrite
    \/ WitPortI2cRead

SpecI2c == Init /\ [][NextI2c]_vars

(* ------------------------------------------------------------------ *)
(* Sensor start-up: jy61p_app_init and jy61p_sensor_scan               *)
(* ------------------------------------------------------------------ *)
(* bus addresses at which a sensor may sit: both ends of the scanned    *)
(* range, a neighbour of the lower end, the sensor's default address    *)
Addrs == {0, 1, DEFAULT_ADDR, 126}

DeviceSets == {D \in SUBSET Addrs : Cardinality(D) <= 2}

PortInitOutcomes == {"ok", "delay_fail", "uart_fail", "i2c_fail"}

(* WitReadReg over I2C is answered when a sensor sits at the bound      *)
(* address and does not miss this attempt                               *)
Responds == wit_addr \in devices /\ misses = 0

JyAppInit ==
    /\ scan_pc = "boot"
    /\ \E o \in PortInitOutcomes :
         IF o # "ok"
         THEN /\ scan_pc' = "init_failed"
              /\ UNCHANGED <<g_app_ctx, wit_addr, binds>>
         ELSE /\ wit_addr' = DEFAULT_ADDR
              /\ binds' = <<>>
              /\ g_app_ctx' = [ZeroAppCtx EXCEPT !.cmd_received = CMD_NONE]
              /\ scan_pc' = "bind"
    /\ addr' = 0
    /\ UNCHANGED <<retry, pending, devices, misses, misses0, probes, scan_ret,
                   cb_seen>>
    /\ UNCHANGED <<busVars, motorVars, isrVars>>

(* mutant of ScanBind: the loop stops one address early *)
ScanBind_StopsEarly ==
    /\ scan_pc = "bind"
    /\ IF addr < SCAN_ADDR_END - 1
       THEN /\ wit_addr' = addr
            /\ binds' = Append(binds, addr)
            /\ retry' = 0
            /\ scan_pc' = "attempt"
            /\ UNCHANGED scan_ret
       ELSE /\ scan_ret' = -1
            /\ scan_pc' = "notfound"
            /\ UNCHANGED <<wit_addr, binds, retry>>
    /\ UNCHANGED <<g_app_ctx, addr, pending, devices, misses, misses0, probes,
                   cb_seen>>
    /\ UNCHANGED <<busVars, motorVars, isrVars>>

ScanBind ==
    /\ scan_pc = "bind"
    /\ IF addr < SCAN_ADDR_END
       THEN /\ wit_addr' = addr
            /\ binds' = Append(binds, addr)
            /\ retry' = 0
            /\ scan_pc' = "attempt"
            /\ UNCHANGED scan_ret
       ELSE /\ scan_ret' = -1
            /\ scan_pc' = "notfound"
            /\ UNCHANGED <<wit_addr, binds, retry>>
    /\ UNCHANGED <<g_app_ctx, addr, pending, devices, misses, misses0, probes,
                   cb_seen>>
    /\ UNCHANGED <<busVars, motorVars, isrVars>>

(* mutant of ScanAttempt: the flag byte is not reset before the read *)
ScanAttempt_NoReset ==
    /\ scan_pc = "attempt"
    /\ IF retry < SCAN_RETRIES
       THEN /\ UNCHANGED g_app_ctx
            /\ cb_seen' = FALSE
            /\ pending' = (pending \/ Responds)
            /\ misses' = IF wit_addr \in devices /\ misses > 0
                         THEN misses - 1 ELSE misses
            /\ probes' = Append(probes, <<wit_addr, retry, Responds>>)
            /\ scan_pc' = "wait"
            /\ UNCHANGED addr
       ELSE /\ addr' = addr + 1
            /\ scan_pc' = "bind"
            /\ UNCHANGED <<g_app_ctx, pending, misses, probes, cb_seen>>
    /\ UNCHANGED <<wit_addr, retry, devices, misses0, binds, scan_ret>>
    /\ UNCHANGED <<busVars, motorVars, isrVars>>

ScanAttempt ==
    /\ scan_pc = "attempt"
    /\ IF retry < SCAN_RETRIES
       THEN /\ g_app_ctx' = [g_app_ctx EXCEPT !.data_update_flags = 0]
            /\ cb_seen' = FALSE
            /\ pending' = (pending \/ Responds)
            /\ misses' = IF wit_addr \in devices /\ misses > 0
                         THEN misses - 1 ELSE misses
            /\ probes' = Append(probes, <<wit_addr, retry, Responds>>)
            /\ scan_pc' = "wait"
            /\ UNCHANGED addr
       ELSE /\ addr' = addr + 1
            /\ scan_pc' = "bind"
            /\ UNCHANGED <<g_app_ctx, pending, misses, probes, cb_seen>>
    /\ UNCHANGED <<wit_addr, retry, devices, misses0, binds, scan_ret>>
    /\ UNCHANGED <<busVars, motorVars, isrVars>>

SensorCallback ==
    /\ pending
    /\ g_app_ctx' = [g_app_ctx EXCEPT !.data_update_flags =
           jy61p_sensor_data_process(g_app_ctx.data_update_flags,
                                     AX, SCAN_READ_LEN)]
    /\ pending' = FALSE
    /\ cb_seen' = TRUE
    /\ UNCHANGED <<wit_addr, scan_pc, addr, retry, devices, misses, misses0,
                   binds, probes, scan_ret>>
    /\ UNCHANGED <<busVars, motorVars, isrVars>>

(* mutant of ScanCheck: a set flag marks the sensor but the loops go on *)
ScanCheck_NoReturn ==
    /\ scan_pc = "wait"
    /\ ~pending
    /\ IF g_app_ctx.data_update_flags # 0
       THEN g_app_ctx' = [g_app_ctx EXCEPT !.sensor_found = 1,
                                           !.sensor_addr = addr]
       ELSE UNCHANGED g_app_ctx
    /\ retry' = retry + 1
    /\ scan_pc' = "attempt"
    /\ UNCHANGED scan_ret
    /\ UNCHANGED <<wit_addr, addr, pending, devices, misses, misses0, binds,
                   probes, cb_seen>>
    /\ UNCHANGED <<busVars, motorVars, isrVars>>

ScanCheck ==
    /\ scan_pc = "wait"
    /\ ~pending
    /\ IF g_app_ctx.data_update_flags # 0
       THEN /\ g_app_ctx' = [g_app_ctx EXCEPT !.sensor_found = 1,
                                              !.sensor_addr = addr]
            /\ scan_ret' = 0
            /\ scan_pc' = "found"
            /\ UNCHANGED retry
       ELSE /\ retry' = retry + 1
            /\ scan_pc' = "attempt"
            /\ UNCHANGED <<g_app_ctx, scan_ret>>
    /\ UNCHANGED <<wit_addr, addr, pending, devices, misses, misses0, binds,
                   probes, cb_seen>>
    /\ UNCHANGED <<busVars, motorVars, isrVars>>

InitScan ==
    /\ MotorInit
    /\ \E D \in DeviceSets : \E k \in 0..MaxMisses : ScanInitWith(D, k)
    /\ IsrInit
    /\ BusInit

NextScan ==
    \/ JyAppInit
    \/ ScanBind
    \/ ScanAttempt
    \/ SensorCallback
    \/ ScanCheck

SpecScan == InitScan /\ [][NextScan]_vars

(* the scan is the only thread before the main loop: it keeps running *)
SpecScanFair == InitScan /\ [][NextScan]_vars /\ WF_vars(NextScan)

(* The register-update callback taken as asynchronous: the 10 ms wait  *)
(* may end while the answer to the read is still on its way, and the   *)
(* answer is then delivered at any later point.                        *)
ScanCheckEarly ==
    /\ scan_pc = "wait"
    /\ pending
    /\ IF g_app_ctx.data_update_flags # 0
       THEN /\ g_app_ctx' = [g_app_ctx EXCEPT !.sensor_found = 1,
                                              !.sensor_addr = addr]
            /\ scan_ret' = 0
            /\ scan_pc' = "found"
            /\ UNCHANGED retry
       ELSE /\ retry' = retry + 1
            /\ scan_pc' = "attempt"
            /\ UNCHANGED <<g_app_ctx, scan_ret>>
    /\ UNCHANGED <<wit_addr, addr, pending, devices, misses, misses0, binds,
                   probes, cb_seen>>
    /\ UNCHANGED <<busVars, motorVars, isrVars>>

NextScanAsync ==
    \/ NextScan
    \/ ScanCheckEarly

SpecScanAsync == InitScan /\ [][NextScanAsync]_vars

(* The application interface queried at any point of the start-up; the *)
(* answer is kept in last.                                              *)
Query(op, arg, ret, out) ==
    /\ last' = [op |-> op, arg |-> arg, ret |-> ret, upd |-> {},
                calls |-> <<>>, faults |-> {}, out |-> out,
                hw |-> <<[pins |-> pins, ccr |-> ccr, on |-> pwm_on]>>]
    /\ UNCHANGED <<g_motor_app_status, g_tb6612_driver, g_pwm_state, pins,
                   ccr, pwm_on, scanVars, isrVars, busVars>>

JyIsSensorConnected ==
    Query("jy61p_is_sensor_connected", <<>>,
          jy61p_is_sensor_connected(g_app_ctx), <<>>)

JyGetSensorAddress ==
    Query("jy61p_get_sensor_address", <<>>,
          jy61p_get_sensor_address(g_app_ctx), <<>>)

JyGetSensorData ==
    \E data \in {NULL, <<"buf">>} :
        LET g == jy61p_get_sensor_data(g_app_ctx, data)
        IN  Query("jy61p_get_sensor_data", <<data>>, g.ret, g.out)

NextScanApi ==
    \/ NextScan
    \/ JyIsSensorConnected
    \/ JyGetSensorAddress
    \/ JyGetSensorData

SpecScanApi == InitScan /\ [][NextScanApi]_vars

(* ------------------------------------------------------------------ *)
(* Main loop of jy61p_app_main and the receive interrupt               *)
(* ------------------------------------------------------------------ *)
(* the state jy61p_app_main enters its loop in: the sensor was found at *)
(* its default address by the first probe                               *)
MainLoopProbes ==
    [i \in 1..(2 * DEFAULT_ADDR + 1) |->
        IF i = 2 * DEFAULT_ADDR + 1 THEN <<DEFAULT_ADDR, 0, TRUE>>
        ELSE <<(i - 1) \div 2, (i - 1) % 2, FALSE>>]

MainLoopInit ==
    /\ MotorInit
    /\ IsrInit
    /\ BusInit
    /\ g_app_ctx = [data_update_flags |->
                        jy61p_sensor_data_process(0, AX, SCAN_READ_LEN),
                    cmd_received |-> CMD_NONE,
                    sensor_found |-> 1, sensor_addr |-> DEFAULT_ADDR]
    /\ wit_addr = DEFAULT_ADDR
    /\ scan_pc = "found"
    /\ addr = DEFAULT_ADDR
    /\ retry = 0
    /\ pending = FALSE
    /\ devices = {DEFAULT_ADDR}
    /\ misses = 0
    /\ misses0 = 0
    /\ binds = [i \in 1..(DEFAULT_ADDR + 1) |-> i - 1]
    /\ probes = MainLoopProbes
    /\ scan_ret = 0
    /\ cb_seen = TRUE

scanRest == <<wit_addr, scan_pc, addr, retry, pending, devices, misses,
              misses0, binds, probes, scan_ret, cb_seen>>

(* command bytes a terminal sends: the eight commands, an unknown       *)
(* letter and the byte 0xFF                                             *)
CmdChars == {97, 109, 101, 117, 85, 66, 98, 104, 120, 255}

(* well-formed frames: a command byte, CR, LF *)
FrameBytes ==
    IF s_ucRxCnt = 0 THEN CmdChars
    ELSE IF s_ucRxCnt = 1 THEN {CHAR_CR}
    ELSE {CHAR_LF}

(* the UART receive interrupt hands one byte to jy61p_cmd_data_received *)
CmdDataReceived(bytes) ==
    \E b \in bytes :
        LET r == jy61p_cmd_data_received(s_ucData, s_ucRxCnt,
                                         g_app_ctx.cmd_received, b)
        IN  /\ s_ucData' = r.buf
            /\ s_ucRxCnt' = r.cnt
            /\ g_app_ctx' = [g_app_ctx EXCEPT !.cmd_received = r.cmd]
            /\ acc' = IF r.cnt = 0 THEN <<>> ELSE Append(acc, b)
            /\ rx_last' = [byte |-> b, latched |-> r.latched,
                           dropped |-> r.dropped, idx |-> r.idx,
                           n |-> Len(acc) + 1]
            /\ cmd_fresh' = (r.latched \/ cmd_fresh)
            /\ UNCHANGED <<cmd_pc, cmd_last>>
            /\ UNCHANGED <<busVars, motorVars, scanRest, convVars>>

(* jy61p_cmd_process up to the end of its switch: cmd_received is read  *)
(* and dispatched                                                       *)
CmdProcessRead ==
    /\ scan_pc = "found"
    /\ cmd_pc = "idle"
    /\ LET c == g_app_ctx.cmd_received
       IN  /\ cmd_last' = [ev |-> "read", ch |-> c, out |-> CmdAction(c),
                           tick |-> 1 - cmd_last.tick]
           /\ cmd_pc' = IF c = CMD_NONE THEN "idle" ELSE "reset"
           /\ cmd_fresh' = IF c = CMD_NONE THEN cmd_fresh ELSE FALSE
    /\ UNCHANGED <<s_ucData, s_ucRxCnt, acc, rx_last>>
    /\ UNCHANGED <<busVars, motorVars, scanVars, convVars>>

(* jy61p_cmd_process after its switch: cmd_received = 0xFF *)
CmdProcessReset ==
    /\ cmd_pc = "reset"
    /\ g_app_ctx' = [g_app_ctx EXCEPT !.cmd_received = CMD_NONE]
    /\ cmd_last' = [ev |-> "reset", ch |-> g_app_ctx.cmd_received,
                    out |-> "none", tick |-> 1 - cmd_last.tick]
    /\ cmd_pc' = "idle"
    /\ cmd_fresh' = FALSE
    /\ UNCHANGED <<s_ucData, s_ucRxCnt, acc, rx_last>>
    /\ UNCHANGED <<busVars, motorVars, scanRest, convVars>>

(* a call of jy61p_cmd_process that no reception interrupts *)
CmdProcess ==
    /\ scan_pc = "found"
    /\ cmd_pc = "idle"
    /\ LET r == jy61p_cmd_process(g_app_ctx.cmd_received)
       IN  /\ g_app_ctx' = [g_app_ctx EXCEPT !.cmd_received = r.cmd]
           /\ cmd_last' = [ev |-> "call", ch |-> g_app_ctx.cmd_received,
                           out |-> r.out, tick |-> 1 - cmd_last.tick]
           /\ cmd_fresh' = IF g_app_ctx.cmd_received = CMD_NONE
                           THEN cmd_fresh ELSE FALSE
    /\ UNCHANGED <<cmd_pc, s_ucData, s_ucRxCnt, acc, rx_last>>
    /\ UNCHANGED <<busVars, motorVars, scanRest, convVars>>

NextCmd ==
    \/ CmdDataReceived(FrameBytes)
    \/ CmdProcessRead
    \/ CmdProcessReset
    \/ CmdProcess

SpecCmd == MainLoopInit /\ [][NextCmd]_vars

(* ------------------------------------------------------------------ *)
(* jy61p_data_convert_and_print against the register-update callback   *)
(* ------------------------------------------------------------------ *)
(* register spans the SDK reports: the main loop's read of 12 registers *)
(* from AX, and single registers of each group                          *)
CallbackInputs == {<<AX, 12>>, <<AZ, 1>>, <<GZ, 1>>, <<Yaw, 1>>}

ConvUnchanged ==
    /\ UNCHANGED <<s_ucData, s_ucRxCnt, acc, rx_last, cmd_pc, cmd_fresh,
                   cmd_last>>
    /\ UNCHANGED <<busVars, motorVars, scanRest>>

(* jy61p_sensor_data_process run by the SDK in interrupt context *)
DataUpdateCallback ==
    /\ scan_pc = "found"
    /\ \E in \in CallbackInputs :
         /\ g_app_ctx' = [g_app_ctx EXCEPT !.data_update_flags =
                jy61p_sensor_data_process(g_app_ctx.data_update_flags,
                                          in[1], in[2])]
         /\ unseen' = unseen \cup
                BitsOf(jy61p_sensor_data_process(0, in[1], in[2]))
    /\ UNCHANGED <<conv_pc, conv_tmp>>
    /\ ConvUnchanged

(* the flag tests follow one another in the order ACC, GYRO, ANGLE, MAG *)
ConvNext(b) ==
    IF b = ACC_UPDATE THEN <<"test", GYRO_UPDATE>>
    ELSE IF b = GYRO_UPDATE THEN <<"test", ANGLE_UPDATE>>
    ELSE IF b = ANGLE_UPDATE THEN <<"test", MAG_UPDATE>>
    ELSE <<"idle", 0>>

(* if (data_update_flags == 0) return; then the conversion of sReg *)
ConvStart ==
    /\ scan_pc = "found"
    /\ conv_pc = <<"idle", 0>>
    /\ conv_pc' = IF g_app_ctx.data_update_flags = 0 THEN <<"idle", 0>>
                  ELSE <<"test", ACC_UPDATE>>
    /\ UNCHANGED <<g_app_ctx, conv_tmp, unseen>>
    /\ ConvUnchanged

(* if (data_update_flags & bit) { printf(...); *)
ConvTest ==
    /\ conv_pc[1] = "test"
    /\ LET b == conv_pc[2]
       IN  IF HasBit(g_app_ctx.data_update_flags, b)
           THEN /\ unseen' = unseen \ {b}
                /\ conv_pc' = <<"load", b>>
           ELSE /\ UNCHANGED unseen
                /\ conv_pc' = ConvNext(b)
    /\ UNCHANGED <<g_app_ctx, conv_tmp>>
    /\ ConvUnchanged

(* data_update_flags &= ~bit : the load of the volatile byte *)
ConvLoad ==
    /\ conv_pc[1] = "load"
    /\ conv_tmp' = g_app_ctx.data_update_flags
    /\ conv_pc' = <<"store", conv_pc[2]>>
    /\ UNCHANGED <<g_app_ctx, unseen>>
    /\ ConvUnchanged

(* data_update_flags &= ~bit : the store of the modified byte *)
ConvStore ==
    /\ conv_pc[1] = "store"
    /\ g_app_ctx' = [g_app_ctx EXCEPT !.data_update_flags =
                         ClearBit(conv_tmp, conv_pc[2])]
    /\ conv_pc' = ConvNext(conv_pc[2])
    /\ UNCHANGED <<conv_tmp, unseen>>
    /\ ConvUnchanged

NextConv ==
    \/ DataUpdateCallback
    \/ ConvStart
    \/ ConvTest
    \/ ConvLoad
    \/ ConvStore

SpecConv == MainLoopInit /\ [][NextConv]_vars

(* The callback with a start register at, before or after the watched   *)
(* ones and any short register count, on whatever flags the main loop   *)
(* has left                                                             *)
CallbackRegs == {AX, AZ, GZ - 1, HZ, Yaw, Yaw + 1}

CallbackNums == 0..MaxRegNum \cup {12}

SensorDataProcess ==
    /\ scan_pc = "found"
    /\ \E uiReg \in CallbackRegs, uiRegNum \in CallbackNums :
         /\ g_app_ctx' = [g_app_ctx EXCEPT !.data_update_flags =
                jy61p_sensor_data_process(g_app_ctx.data_update_flags,
                                          uiReg, uiRegNum)]
         /\ last' = [op |-> "jy61p_sensor_data_process",
                     arg |-> <<uiReg, uiRegNum>>, ret |-> 0, upd |-> {},
                     calls |-> <<>>, faults |-> {}, out |-> <<>>,
                     hw |-> <<[pins |-> pins, ccr |-> ccr, on |-> pwm_on]>>]
    /\ UNCHANGED <<g_motor_app_status, g_tb6612_driver, g_pwm_state, pins,
                   ccr, pwm_on, scanRest, isrVars, busVars>>

NextCallback ==
    \/ SensorDataProcess
    \/ ConvStart
    \/ ConvTest
    \/ ConvLoad
    \/ ConvStore

SpecCallback == MainLoopInit /\ [][NextCallback]_vars

(* the main loop keeps polling; the callback fires only when data arrive *)
SpecConvFair ==
    MainLoopInit /\ [][NextConv]_vars
    /\ WF_vars(ConvStart \/ ConvTest \/ ConvLoad \/ ConvStore)

(* ------------------------------------------------------------------ *)
(* Arbitrary byte streams into jy61p_cmd_data_received                 *)
(* ------------------------------------------------------------------ *)
(* the stream is free over a command letter, CR and LF at the start of  *)
(* an accumulation and near the end of the buffer, and a filler letter  *)
(* in between                                                           *)
RxBytes == {97, CHAR_CR, CHAR_LF}

RxFiller == 120

StreamBytes ==
    IF s_ucRxCnt < RxHead \/ s_ucRxCnt >= RxTail THEN RxBytes
    ELSE {RxFiller}

NextRx == CmdDataReceived(StreamBytes)

SpecRx == MainLoopInit /\ [][NextRx]_vars

(* ------------------------------------------------------------------ *)
(* Properties of the motor pair translator                             *)
(* ------------------------------------------------------------------ *)
MotionOps ==
    {"motor_app_control_motors", "motor_app_move_forward",
     "motor_app_move_backward", "motor_app_turn_left", "motor_app_turn_right"}

ControlOps == MotionOps \cup {"motor_app_stop_all"}

PortDir(motor, direction) == <<"dir", motor, direction>>

PortSpeed(motor, speed_percent) == <<"speed", motor, speed_percent>>

Magnitude(speed) == IF speed < 0 THEN 0 - speed ELSE speed

WheelDir(speed) ==
    CASE speed > 0 -> TB6612_FORWARD
      [] speed < 0 -> TB6612_BACKWARD
      [] speed = 0 -> TB6612_STOP

(* C1: a successful motor_app_control_motors hands each wheel the       *)
(* direction given by the sign of its speed (FORWARD iff > 0, BACKWARD  *)
(* iff < 0, STOP iff = 0) and the magnitude |speed|: these are the      *)
(* port-layer calls made and the motor status the driver records.       *)
C1_SignToDirection ==
    (last.op = "motor_app_control_motors" /\ last.ret = 0) =>
        LET c == last.arg[1][1]
            l == c.left_speed
            r == c.right_speed
        IN  /\ l >= -100 /\ l <= 100 /\ r >= -100 /\ r <= 100
            /\ last.calls = << PortDir(TB6612_MOTOR_A, WheelDir(l)),
                               PortDir(TB6612_MOTOR_B, WheelDir(r)),
                               PortSpeed(TB6612_MOTOR_A, Magnitude(l)),
                               PortSpeed(TB6612_MOTOR_B, Magnitude(r)) >>
            /\ g_tb6612_driver.motor_status[TB6612_MOTOR_A].direction = WheelDir(l)
            /\ g_tb6612_driver.motor_status[TB6612_MOTOR_B].direction = WheelDir(r)
            /\ g_tb6612_driver.motor_status[TB6612_MOTOR_A].speed_percent = Magnitude(l)
            /\ g_tb6612_driver.motor_status[TB6612_MOTOR_B].speed_percent = Magnitude(r)

C1_Witness ==
    /\ last.op = "motor_app_control_motors"
    /\ last.ret = 0
    /\ last.arg = << <<[left_speed |-> 0 - SpeedLow, right_speed |-> SpeedLow]>> >>
    /\ last.calls = << PortDir(TB6612_MOTOR_A, TB6612_BACKWARD),
                       PortDir(TB6612_MOTOR_B, TB6612_FORWARD),
                       PortSpeed(TB6612_MOTOR_A, SpeedLow),
                       PortSpeed(TB6612_MOTOR_B, SpeedLow) >>

(* the levels of a wheel's two direction pins in a hardware snapshot *)
WheelPins(s, w) ==
    IF w = TB6612_MOTOR_A THEN <<s.pins["AIN1"], s.pins["AIN2"]>>
                          ELSE <<s.pins["BIN1"], s.pins["BIN2"]>>

TruthPins(direction) ==
    << IF direction \in {TB6612_FORWARD, TB6612_BRAKE} THEN 1 ELSE 0,
       IF direction \in {TB6612_BACKWARD, TB6612_BRAKE} THEN 1 ELSE 0 >>

(* the compare value of a duty percentage at the timer period in force *)
PulseOf(percent) == (g_pwm_state.period * percent) \div 100

PairOrder ==
    << <<"dir", TB6612_MOTOR_A>>, <<"dir", TB6612_MOTOR_B>>,
       <<"speed", TB6612_MOTOR_A>>, <<"speed", TB6612_MOTOR_B>> >>

(* the port layer was driven in the order dir A, dir B, speed A, speed B *)
PairOrderKept ==
    /\ Len(last.calls) <= 4
    /\ \A k \in 1..Len(last.calls) :
          <<last.calls[k][1], last.calls[k][2]>> = PairOrder[k]

PairApplied == last.op \in MotionOps /\ Len(last.calls) = 4

(* in snapshot i wheel w is driven in its new, changed direction while  *)
(* its PWM output still runs at the old, different, nonzero duty        *)
OldSpeedNewDirection(i, w) ==
    LET old == last.hw[1]
        s == last.hw[i]
        newdir == last.calls[w + 1][3]
        newpct == last.calls[w + 3][3]
    IN  /\ newdir \in {TB6612_FORWARD, TB6612_BACKWARD}
        /\ WheelPins(s, w) = TruthPins(newdir)
        /\ WheelPins(old, w) # TruthPins(newdir)
        /\ s.ccr[w + 1] = old.ccr[w + 1]
        /\ s.on[w + 1]
        /\ old.ccr[w + 1] # 0
        /\ old.ccr[w + 1] # PulseOf(newpct)

(* C2 as stated: a motor pair command drives the port layer in the      *)
(* order direction A, direction B, speed A, speed B, and in no          *)
(* intermediate hardware state does a wheel have its new direction      *)
(* while its PWM duty is still the old, different, nonzero speed.       *)
C2_NoOldSpeedInNewDirection ==
    PairApplied =>
        /\ PairOrderKept
        /\ \A i \in 1..Len(last.hw), w \in {TB6612_MOTOR_A, TB6612_MOTOR_B} :
              ~OldSpeedNewDirection(i, w)

(* C2 amended: a motor pair command drives the port layer in the order  *)
(* direction A, direction B, speed A, speed B; both direction writes    *)
(* are made while both PWM duties and outputs are still the old ones,   *)
(* and the sequence ends with both wheels at their new direction and    *)
(* new duty.                                                            *)
C2_DirectionsThenSpeeds ==
    /\ last.op \in MotionOps => PairOrderKept
    /\ PairApplied =>
          /\ Len(last.hw) >= 5
          /\ \A i \in 1..5 : /\ last.hw[i].ccr = last.hw[1].ccr
                             /\ last.hw[i].on = last.hw[1].on
          /\ \A w \in {TB6612_MOTOR_A, TB6612_MOTOR_B} :
                /\ WheelPins(last.hw[5], w) = TruthPins(last.calls[w + 1][3])
                /\ WheelPins([pins |-> pins], w) = TruthPins(last.calls[w + 1][3])
                /\ ccr[w + 1] = PulseOf(last.calls[w + 3][3])

C2_Witness ==
    /\ PairApplied
    /\ last.ret = 0
    /\ \E w \in {TB6612_MOTOR_A, TB6612_MOTOR_B} :
          /\ WheelPins(last.hw[1], w) = TruthPins(TB6612_FORWARD)
          /\ last.calls[w + 1][3] = TB6612_BACKWARD
          /\ last.hw[1].ccr[w + 1] # 0
          /\ last.hw[1].ccr[w + 1] # ccr[w + 1]

InvalidControl(control) ==
    \/ control = NULL
    \/ control[1].left_speed < -100 \/ control[1].left_speed > 100
    \/ control[1].right_speed < -100 \/ control[1].right_speed > 100

(* C3: motor_app_control_motors with a NULL command, or with a speed    *)
(* outside [-100,100] (down to -32768), returns an error, makes no      *)
(* port-layer call and no hardware write, and leaves the app status     *)
(* and the driver's motor status unchanged.                             *)
C3_InvalidCommandRejected ==
    [][ (last'.op = "motor_app_control_motors" /\ InvalidControl(last'.arg[1]))
        => /\ last'.ret = -1
           /\ last'.calls = <<>>
           /\ Len(last'.hw) = 1
           /\ g_motor_app_status' = g_motor_app_status
           /\ g_tb6612_driver' = g_tb6612_driver
           /\ pins' = pins /\ ccr' = ccr /\ pwm_on' = pwm_on ]_vars

C3_Witness ==
    /\ last.op = "motor_app_control_motors"
    /\ last.arg[1] # NULL
    /\ last.arg[1][1].left_speed = -32768
    /\ last.ret = -1
    /\ g_motor_app_status.initialized
    /\ g_motor_app_status.current_speed_a # 0

(* C4 as stated: for S in [0,100] motor_app_turn_left(S) issues the     *)
(* port-layer commands of motor_app_control_motors({left=0,right=S})    *)
(* (left wheel STOP at 0, right wheel by the sign of S at S) and        *)
(* leaves the same app status; motor_app_turn_right(S) is the mirror.   *)
C4_TurnIsPairTranslate ==
    /\ (last.op = "motor_app_turn_left" /\ last.ret = 0) =>
          LET S == last.arg[1]
          IN  /\ last.calls = << PortDir(TB6612_MOTOR_A, TB6612_STOP),
                                 PortDir(TB6612_MOTOR_B, WheelDir(S)),
                                 PortSpeed(TB6612_MOTOR_A, 0),
                                 PortSpeed(TB6612_MOTOR_B, S) >>
              /\ g_motor_app_status.current_speed_a = 0
              /\ g_motor_app_status.current_dir_a = 0
              /\ g_motor_app_status.current_speed_b = S
              /\ g_motor_app_status.current_dir_b = (IF S > 0 THEN 1 ELSE 0)
    /\ (last.op = "motor_app_turn_right" /\ last.ret = 0) =>
          LET S == last.arg[1]
          IN  /\ last.calls = << PortDir(TB6612_MOTOR_A, WheelDir(S)),
                                 PortDir(TB6612_MOTOR_B, TB6612_STOP),
                                 PortSpeed(TB6612_MOTOR_A, S),
                                 PortSpeed(TB6612_MOTOR_B, 0) >>
              /\ g_motor_app_status.current_speed_a = S
              /\ g_motor_app_status.current_dir_a = (IF S > 0 THEN 1 ELSE 0)
              /\ g_motor_app_status.current_speed_b = 0
              /\ g_motor_app_status.current_dir_b = 0

(* ------------------------------------------------------------------ *)
(* Properties of failure handling                                      *)
(* ------------------------------------------------------------------ *)
Wheels(st) ==
    <<st.current_speed_a, st.current_dir_a, st.current_speed_b, st.current_dir_b>>

(* the direction/speed sequence of the last motion call stopped partway *)
FailedPartway(h) ==
    /\ h.op \in MotionOps
    /\ Len(h.calls) >= 1
    /\ (Len(h.calls) < 4 \/ "pwm_set_duty" \in h.faults)

(* C5: when the hardware call sequence of a motor command fails partway *)
(* (directions applied, a later speed set rejected) the motor_app       *)
(* operation returns an error and the retained app status is not        *)
(* updated; the status changes only after the whole sequence succeeded. *)
C5_PartialFailureKeepsStatus ==
    [][ /\ FailedPartway(last')
           => /\ last'.ret = -1
              /\ g_motor_app_status' = g_motor_app_status
        /\ (last'.op \in MotionOps /\ g_motor_app_status' # g_motor_app_status)
           => /\ last'.ret = 0
              /\ Len(last'.calls) = 4
              /\ "pwm_set_duty" \notin last'.faults ]_vars

C5_Witness ==
    /\ last.op \in MotionOps
    /\ g_motor_app_status.initialized
    /\ last.ret = -1
    /\ "pwm_set_duty" \in last.faults
    /\ Len(last.calls) = 3
    /\ last.calls[1][1] = "dir" /\ last.calls[2][1] = "dir"
    /\ last.calls[3][1] = "speed"
    /\ Len(last.hw) > 1

(* C6: after every motor_app operation, succeeding or failing at any    *)
(* step of its direction/speed sequence, the retained status holds      *)
(* either both wheels' previous entries or both wheels' entries written *)
(* by that operation, never one new with one old, and                   *)
(* motor_app_get_status returns exactly the retained status.            *)
C6_StatusBothOldOrBothNew ==
    [][ /\ last'.op \in ControlOps
           => \/ /\ last'.upd = {}
                 /\ g_motor_app_status' = g_motor_app_status
              \/ /\ last'.upd = {0, 1}
                 /\ last'.ret = 0
        /\ (last'.op = "motor_app_get_status" /\ last'.ret = 0)
           => /\ last'.out = <<g_motor_app_status>>
              /\ g_motor_app_status' = g_motor_app_status ]_vars

C6_Witness ==
    /\ last.op \in MotionOps
    /\ last.ret = -1
    /\ last.faults # {}
    /\ Len(last.calls) \in 1..3
    /\ g_motor_app_status.current_speed_a # 0
    /\ g_motor_app_status.current_speed_b # 0
    /\ g_motor_app_status.current_dir_a # g_motor_app_status.current_dir_b

(* C7: every control operation invoked while the app is not initialized *)
(* (before a successful motor_app_init, or after motor_app_deinit)      *)
(* returns the error value, makes no port-layer call and no hardware    *)
(* write, and changes neither the retained status nor the driver.       *)
C7_NotInitializedRejected ==
    [][ (last'.op \in ControlOps /\ ~g_motor_app_status.initialized)
        => /\ last'.ret = -1
           /\ last'.calls = <<>>
           /\ Len(last'.hw) = 1
           /\ g_motor_app_status' = g_motor_app_status
           /\ g_tb6612_driver' = g_tb6612_driver
           /\ g_pwm_state' = g_pwm_state
           /\ pins' = pins /\ ccr' = ccr /\ pwm_on' = pwm_on ]_vars

C7_Witness ==
    /\ last.op \in ControlOps
    /\ ~g_motor_app_status.initialized
    /\ g_tb6612_driver.initialized
    /\ last.ret = -1
    /\ last.calls = <<>>

(* C8: a failure of any underlying hardware call made while applying a  *)
(* motor command (direction pin write, PWM duty set, PWM start or PWM   *)
(* stop) is reported as an error by the driver operation and by the     *)
(* motor_app operation that issued it, and the retained status fields   *)
(* are then left unmodified.  (The pin write returns nothing that can   *)
(* fail; the failures are those of the duty set, start and stop.)       *)
C8_HardwareFailureReported ==
    (last.op \in ControlOps /\ last.faults # {})
        => (last.ret # 0 /\ last.upd = {})

(* ------------------------------------------------------------------ *)
(* Properties of the bus scan                                          *)
(* ------------------------------------------------------------------ *)
ScanOver == scan_pc \in {"found", "notfound"}

ProbedAddrs == {probes[i][1] : i \in 1..Len(probes)}

ProbesIncreasing ==
    \A i, j \in 1..Len(probes) : i < j => probes[i][1] <= probes[j][1]

(* C9: jy61p_sensor_scan with a device responding at address A (A in    *)
(* [0,126]) and silence at every other address reports success with     *)
(* sensor address A, has probed every address below A in increasing     *)
(* order, and probes no address greater than A.                         *)
C9_ScanFindsOnlyDevice ==
    \A A \in 0..126 :
        (devices = {A} /\ misses0 < SCAN_RETRIES)
        => /\ \A i \in 1..Len(probes) : probes[i][1] <= A
           /\ ProbesIncreasing
           /\ ScanOver
              => /\ scan_pc = "found"
                 /\ scan_ret = 0
                 /\ g_app_ctx.sensor_found = 1
                 /\ g_app_ctx.sensor_addr = A
                 /\ ProbedAddrs = 0..A
                 /\ binds = [i \in 1..(A + 1) |-> i - 1]

C9_Witness ==
    /\ scan_pc = "found"
    /\ devices = {DEFAULT_ADDR}
    /\ g_app_ctx.sensor_addr = DEFAULT_ADDR
    /\ Len(probes) > 2 * DEFAULT_ADDR
    /\ probes[Len(probes)][3]

(* C10: jy61p_sensor_scan with no responding device rebinds the SDK to  *)
(* every address 0 through 126 exactly once, in strictly increasing     *)
(* order, and then reports not-found without marking a sensor as found. *)
C10_SilentBusScannedOnce ==
    (\A i \in 1..Len(probes) : ~probes[i][3])
    => /\ \A i, j \in 1..Len(binds) : i < j => binds[i] < binds[j]
       /\ scan_pc # "found"
       /\ g_app_ctx.sensor_found = 0
       /\ scan_pc = "notfound"
          => /\ binds = [i \in 1..127 |-> i - 1]
             /\ scan_ret = -1
             /\ Len(probes) = 2 * 127

C10_Witness ==
    /\ scan_pc = "notfound"
    /\ devices = {}
    /\ Len(binds) = 127
    /\ scan_ret = -1
    /\ g_app_ctx.sensor_found = 0

(* C11: in jy61p_sensor_scan the data-update flag byte is reset to 0    *)
(* immediately before every probe attempt (both attempts at every       *)
(* address), so an address is accepted only when the callback set a     *)
(* flag during that same attempt; a flag left over from an earlier      *)
(* attempt or an earlier address never causes an address to be accepted.*)
C11_FlagResetBeforeEveryAttempt ==
    [][ /\ (probes' # probes) => g_app_ctx'.data_update_flags = 0
        /\ (scan_pc' = "found" /\ scan_pc # "found") => cb_seen ]_vars

(* a late answer left a flag behind, and the next attempt, at the next  *)
(* address, started from a clean flag byte                              *)
C11_Witness ==
    /\ scan_pc = "wait"
    /\ ~pending
    /\ ~cb_seen
    /\ g_app_ctx.data_update_flags = 0
    /\ Len(probes) >= 2
    /\ probes[Len(probes) - 1][3]
    /\ ~probes[Len(probes)][3]
    /\ probes[Len(probes) - 1][1] < probes[Len(probes)][1]

AttemptsBounded ==
    /\ Len(probes) <= 2 * 127
    /\ \A i \in 1..Len(probes) :
         /\ probes[i][2] \in {0, 1}
         /\ probes[i][1] \in 0..126
         /\ probes[i][2] = 0 => (i = 1 \/ probes[i - 1][1] < probes[i][1])
         /\ probes[i][2] = 1 => /\ i > 1
                                /\ probes[i - 1][1] = probes[i][1]
                                /\ probes[i - 1][2] = 0

ScanEnding ==
    /\ scan_pc = "found"
       => /\ Len(probes) >= 1
          /\ probes[Len(probes)][3]
          /\ \A i \in 1..(Len(probes) - 1) : ~probes[i][3]
          /\ scan_ret = 0
    /\ scan_pc = "notfound"
       => /\ Len(probes) = 2 * 127
          /\ probes[Len(probes)] = <<126, 1, FALSE>>
          /\ scan_ret = -1

(* C12: jy61p_sensor_scan always terminates: it makes at most 2 probe   *)
(* attempts per address, hence at most 254 probe attempts in total, and *)
(* ends either with success at the first attempt that saw a response or *)
(* with not-found after the second attempt at address 126.              *)
C12_ScanTerminates ==
    /\ [](AttemptsBounded /\ ScanEnding)
    /\ (scan_pc = "bind") ~> ScanOver

(* the sensor at the last address answers the last attempt allowed *)
C12_Witness ==
    /\ scan_pc = "found"
    /\ Len(probes) = 254
    /\ probes[254] = <<126, 1, TRUE>>
    /\ g_app_ctx.sensor_addr = 126

(* ------------------------------------------------------------------ *)
(* Properties of the command path                                      *)
(* ------------------------------------------------------------------ *)
(* C13: every complete command latched by jy61p_cmd_data_received       *)
(* (interrupt context) is either handled by a later jy61p_cmd_process   *)
(* or overwritten by a newer command before being handled; it is never  *)
(* discarded by the reset to the 0xFF sentinel, even when the reception *)
(* interrupts jy61p_cmd_process between its read of the command and its *)
(* reset.  A latched, undispatched command stops being one only by      *)
(* being dispatched.                                                    *)
C13_LatchedCommandNeverDiscarded ==
    [][ (cmd_fresh /\ ~cmd_fresh')
        => /\ cmd_last'.ev \in {"read", "call"}
           /\ cmd_last'.ch = g_app_ctx.cmd_received
           /\ cmd_last'.out # "return" ]_vars

(* the action the help text documents for each command letter *)
MappedAction ==
    [c \in {97, 109, 101, 117, 85, 98, 66, 104} |->
        CASE c = 97  -> "WitStartAccCali"
          [] c = 109 -> "WitStartMagCali"
          [] c = 101 -> "WitStopMagCali"
          [] c = 117 -> "WitSetBandwidth(BANDWIDTH_5HZ)"
          [] c = 85  -> "WitSetBandwidth(BANDWIDTH_256HZ)"
          [] c = 98  -> "WitSetUartBaud(WIT_BAUD_9600)"
          [] c = 66  -> "WitSetUartBaud(WIT_BAUD_115200)"
          [] c = 104 -> "jy61p_show_help"]

IsWholeCall == cmd_last'.tick # cmd_last.tick /\ cmd_last'.ev = "call"

(* C14: with no reception interleaved, a latched command is handled by  *)
(* exactly one jy61p_cmd_process call: that call performs the mapped    *)
(* SDK action for a/m/e/u/U/b/B/h, or only prints a warning (no SDK     *)
(* call) for any other character, then resets cmd_received to 0xFF;     *)
(* every following call with no new command does nothing.               *)
C14_CommandHandledOnce ==
    [][ IsWholeCall
        => IF cmd_fresh
           THEN /\ cmd_last'.out =
                     IF g_app_ctx.cmd_received \in DOMAIN MappedAction
                     THEN MappedAction[g_app_ctx.cmd_received]
                     ELSE "printf(Unknown command)"
                /\ g_app_ctx'.cmd_received = CMD_NONE
                /\ ~cmd_fresh'
           ELSE /\ cmd_last'.out = "return"
                /\ g_app_ctx' = g_app_ctx ]_vars

(* C15: an update bit set in data_update_flags by the callback in       *)
(* interrupt context is never lost: when jy61p_sensor_data_process      *)
(* interleaves at any point with the main loop's read-modify-write      *)
(* clears in jy61p_data_convert_and_print, every bit the callback set   *)
(* stays set until the main loop has observed it.                       *)
C15_UpdateBitNeverLost ==
    \A b \in unseen : HasBit(g_app_ctx.data_update_flags, b)

(* the bytes accumulated up to and including the byte just received *)
Accumulated == Append(acc, rx_last'.byte)

ShouldLatch ==
    LET n == Len(Accumulated)
    IN  /\ n >= 3
        /\ n < 50
        /\ Accumulated[n - 1] = 13
        /\ Accumulated[n] = 10

(* C16: for any byte stream fed to jy61p_cmd_data_received, a command   *)
(* is latched exactly when the two most recent bytes are CR then LF and *)
(* at least 3 and fewer than 50 bytes have accumulated since the last   *)
(* reset; the latched command is the byte immediately preceding CR, and *)
(* the accumulator is then empty, so from an empty accumulator the      *)
(* three bytes c, CR, LF latch c.                                       *)
C16_LatchExactlyOnCrLf ==
    [][ rx_last' # rx_last
        => /\ rx_last'.latched <=> ShouldLatch
           /\ ShouldLatch
              => /\ g_app_ctx'.cmd_received =
                        Accumulated[Len(Accumulated) - 2]
                 /\ s_ucRxCnt' = 0
                 /\ acc' = <<>>
                 /\ s_ucData' = ZeroRxBuf
           /\ ~ShouldLatch
              => g_app_ctx'.cmd_received = g_app_ctx.cmd_received ]_vars

C16_Witness ==
    /\ rx_last.latched
    /\ rx_last.n > 3
    /\ rx_last.byte = 10
    /\ g_app_ctx.cmd_received \in {97, 120}
    /\ s_ucRxCnt = 0
    /\ acc = <<>>

(* C17: for every byte sequence fed to jy61p_cmd_data_received the      *)
(* write index stays within the 50-byte receive buffer (0..49); when 50 *)
(* bytes have accumulated without a latched command the accumulator is  *)
(* silently reset to empty and those bytes are dropped without latching *)
(* any command and without changing cmd_received.                       *)
C17_WriteIndexInBuffer ==
    [][ rx_last' # rx_last
        => /\ rx_last'.idx \in 0..49
           /\ rx_last'.idx = Len(acc)
           /\ s_ucRxCnt' \in 0..49
           /\ Len(Accumulated) = 50
              => /\ s_ucRxCnt' = 0
                 /\ acc' = <<>>
                 /\ rx_last'.dropped
                 /\ ~rx_last'.latched
                 /\ g_app_ctx'.cmd_received = g_app_ctx.cmd_received ]_vars

C17_Witness ==
    /\ rx_last.dropped
    /\ rx_last.n = 50
    /\ rx_last.idx = 49
    /\ rx_last.byte = 10
    /\ s_ucData[48] = 13
    /\ s_ucRxCnt = 0

(* ------------------------------------------------------------------ *)
(* Properties of the driver and the port layer                         *)
(* ------------------------------------------------------------------ *)
InvalidDriverCall(h) ==
    \/ /\ h.op = "tb6612_set_direction"
       /\ (h.arg[1] \notin {0, 1} \/ h.arg[2] \notin 0..3)
    \/ /\ h.op = "tb6612_set_speed"
       /\ (h.arg[1] \notin {0, 1} \/ h.arg[2] > 100)
    \/ /\ h.op = "tb6612_set_motor_pair"
       /\ (h.arg[1] > 100 \/ h.arg[3] > 100 \/
           h.arg[2] \notin 0..3 \/ h.arg[4] \notin 0..3)

(* C18: tb6612_set_direction, tb6612_set_speed and tb6612_set_motor_pair *)
(* called on an initialized driver with an invalid motor id, a direction *)
(* outside {STOP,FORWARD,BACKWARD,BRAKE} or a speed above 100 return     *)
(* TB6612_ERROR_INVALID_PARAM without any port-layer call and without    *)
(* changing the driver's motor status; tb6612_set_motor_pair validates   *)
(* all four arguments before touching either wheel.                      *)
C18_InvalidDriverArgsRejected ==
    [][ (InvalidDriverCall(last') /\ g_tb6612_driver.initialized)
        => /\ last'.ret = -2
           /\ last'.calls = <<>>
           /\ Len(last'.hw) = 1
           /\ g_tb6612_driver' = g_tb6612_driver
           /\ pins' = pins /\ ccr' = ccr /\ pwm_on' = pwm_on ]_vars

(* the pair call with wheel A's arguments valid and wheel B's direction  *)
(* invalid, on a driver whose wheel A is not already in that direction   *)
C18_Witness ==
    /\ last.op = "tb6612_set_motor_pair"
    /\ g_tb6612_driver.initialized
    /\ last.arg[1] <= 100 /\ last.arg[2] = 1 /\ last.arg[3] <= 100
    /\ last.arg[4] = 4
    /\ last.ret = -2
    /\ g_tb6612_driver.motor_status[0].direction # 1

(* ------------------------------------------------------------------ *)
(* The life cycle of the motor application                             *)
(* ------------------------------------------------------------------ *)
MotorState ==
    <<g_motor_app_status, g_tb6612_driver, g_pwm_state, pins, ccr, pwm_on>>

BothWheelsStopped(p) ==
    /\ p["AIN1"] = 0 /\ p["AIN2"] = 0
    /\ p["BIN1"] = 0 /\ p["BIN2"] = 0

(* C19: motor_app_init on an initialized app returns 0 and changes      *)
(* nothing; motor_app_deinit on an uninitialized app returns 0 and      *)
(* changes nothing; a successful motor_app_init leaves both wheels      *)
(* stopped with status speeds 0 and directions 0; after motor_app_deinit *)
(* the app is uninitialized, motor_app_get_status fails, and a following *)
(* motor_app_init succeeds again.                                       *)
C19_LifecycleIdempotentReversible ==
    [][ /\ (last'.op = "motor_app_init" /\ g_motor_app_status.initialized)
           => (last'.ret = 0 /\ MotorState' = MotorState)
        /\ (last'.op = "motor_app_deinit" /\ ~g_motor_app_status.initialized)
           => (last'.ret = 0 /\ MotorState' = MotorState)
        /\ (last'.op = "motor_app_init" /\ ~g_motor_app_status.initialized
              /\ last'.ret = 0)
           => /\ g_motor_app_status'.initialized
              /\ BothWheelsStopped(pins')
              /\ g_motor_app_status'.current_speed_a = 0
              /\ g_motor_app_status'.current_speed_b = 0
              /\ g_motor_app_status'.current_dir_a = 0
              /\ g_motor_app_status'.current_dir_b = 0
        /\ (last'.op = "motor_app_deinit")
           => /\ last'.ret = 0
              /\ ~g_motor_app_status'.initialized
        /\ (last.op = "motor_app_deinit" /\ last'.op = "motor_app_get_status")
           => (last'.ret = -1 /\ last'.out = <<>>)
        /\ (last.op = "motor_app_deinit" /\ last'.op = "motor_app_init"
              /\ last'.faults = {})
           => (last'.ret = 0 /\ g_motor_app_status'.initialized) ]_vars

(* the app was driven, shut down, and initialized again: it is up with  *)
(* both wheels stopped                                                  *)
C19_Witness ==
    /\ last.op = "motor_app_init"
    /\ last.ret = 0
    /\ g_motor_app_status.initialized
    /\ Len(last.hw) > 1
    /\ BothWheelsStopped(pins)
    /\ g_pwm_state.initialized

(* ------------------------------------------------------------------ *)
(* The direction pins of the port layer                                *)
(* ------------------------------------------------------------------ *)
In1In2(p, motor) ==
    IF motor = 0 THEN <<p["AIN1"], p["AIN2"]>> ELSE <<p["BIN1"], p["BIN2"]>>

TruthTable ==
    (0 :> <<0, 0>>) @@ (1 :> <<1, 0>>) @@ (2 :> <<0, 1>>) @@ (3 :> <<1, 1>>)

(* C20: motor_port_set_direction on a valid motor and direction writes  *)
(* the TB6612FNG truth table to that motor's two pins, (IN1,IN2) = STOP *)
(* (0,0), FORWARD (1,0), BACKWARD (0,1), BRAKE (1,1), returns TB6612_OK, *)
(* and leaves the other motor's pins and both PWM channels unchanged.   *)
C20_DirectionTruthTable ==
    [][ (/\ last'.op = "motor_port_set_direction"
         /\ last'.arg[1] \in {0, 1}
         /\ last'.arg[2] \in 0..3)
        => /\ last'.ret = 0
           /\ In1In2(pins', last'.arg[1]) = TruthTable[last'.arg[2]]
           /\ In1In2(pins', 1 - last'.arg[1]) = In1In2(pins, 1 - last'.arg[1])
           /\ ccr' = ccr
           /\ pwm_on' = pwm_on
           /\ g_pwm_state' = g_pwm_state ]_vars

(* wheel B put into BRAKE while wheel A runs forward with its PWM on    *)
C20_Witness ==
    /\ last.op = "motor_port_set_direction"
    /\ last.arg = <<1, 3>>
    /\ last.ret = 0
    /\ pins = [AIN1 |-> 1, AIN2 |-> 0, BIN1 |-> 1, BIN2 |-> 1]
    /\ pwm_on[1]
    /\ ccr[1] > 0

(* ------------------------------------------------------------------ *)
(* The sensor discovery state seen through the application interface   *)
(* ------------------------------------------------------------------ *)
ScanSucceeded == scan_pc = "found"

(* C21: jy61p_is_sensor_connected returns 1 iff a scan has succeeded;   *)
(* jy61p_get_sensor_address returns 0xFF until then and afterwards the  *)
(* matched address, which lies in 0..126 and is the address the SDK is  *)
(* bound to; jy61p_get_sensor_data returns -1 and writes nothing when   *)
(* its pointer is NULL or no sensor was found.                          *)
C21_DiscoveryStateReported ==
    [][ /\ (last' # last /\ last'.op = "jy61p_is_sensor_connected")
           => /\ last'.ret \in {0, 1}
              /\ (last'.ret = 1 <=> ScanSucceeded)
        /\ (last' # last /\ last'.op = "jy61p_get_sensor_address")
           => IF ScanSucceeded
              THEN /\ last'.ret \in 0..126
                   /\ last'.ret = wit_addr
                   /\ last'.ret = probes[Len(probes)][1]
              ELSE last'.ret = 255
        /\ (last' # last /\ last'.op = "jy61p_get_sensor_data"
              /\ (last'.arg[1] = <<>> \/ ~ScanSucceeded))
           => (last'.ret = -1 /\ last'.out = <<>>) ]_vars

(* the address asked for after the sensor was found at the last address *)
(* of the range                                                         *)
C21_Witness ==
    /\ last.op = "jy61p_get_sensor_address"
    /\ ScanSucceeded
    /\ last.ret = 126
    /\ wit_addr = 126

(* ------------------------------------------------------------------ *)
(* Bounded retry of the I2C port                                       *)
(* ------------------------------------------------------------------ *)
(* the call is refused before the bus is touched: no buffer, no length, *)
(* or the port not yet initialized and its initialization failing       *)
I2cRefused(h, initialized) ==
    \/ h.arg[3] = <<>>
    \/ h.arg[4] = 0
    \/ /\ initialized = 0
       /\ (h.hw.instance = <<>> \/ h.hw.busy_ms >= 1000)

(* C22: wit_port_i2c_read and wit_port_i2c_write issue at most 3 bus    *)
(* transactions per call: they return 1 at the first transaction that   *)
(* succeeds without issuing further ones, return 0 after 3 consecutive  *)
(* failures, and return 0 with no bus transaction when the buffer is    *)
(* NULL, the length is 0, or the lazy port initialization fails.        *)
C22_BoundedBusRetry ==
    [][ (i2c_last' # i2c_last
         /\ i2c_last'.op \in {"wit_port_i2c_read", "wit_port_i2c_write"})
        => LET h == i2c_last'
               n == Len(h.xfers)
           IN  /\ n <= 3
               /\ h.ret \in {0, 1}
               /\ I2cRefused(h, s_i2c_initialized) => (h.ret = 0 /\ n = 0)
               /\ ~I2cRefused(h, s_i2c_initialized) =>
                    /\ n >= 1
                    /\ \A k \in 1..(n - 1) : h.status[k] # "HAL_OK"
                    /\ h.ret = 1 <=> h.status[n] = "HAL_OK"
                    /\ h.ret = 0 => n = 3
                    /\ \A k \in 1..n :
                         h.xfers[k][1] = (IF h.op = "wit_port_i2c_read"
                                          THEN "HAL_I2C_Mem_Read"
                                          ELSE "HAL_I2C_Mem_Write") ]_vars

(* a write that failed three times although a fourth transfer would     *)
(* have succeeded                                                       *)
C22_Witness ==
    /\ i2c_last.op = "wit_port_i2c_write"
    /\ i2c_last.ret = 0
    /\ Len(i2c_last.xfers) = 3
    /\ i2c_last.status[4] = "HAL_OK"

(* ------------------------------------------------------------------ *)
(* The app status against the driver's record                          *)
(* ------------------------------------------------------------------ *)
MotorAppOps ==
    {"motor_app_init", "motor_app_deinit", "motor_app_get_status",
     "motor_app_control_motors", "motor_app_move_forward",
     "motor_app_move_backward", "motor_app_turn_left", "motor_app_turn_right",
     "motor_app_stop_all"}

(* the app's record of one wheel agrees with the driver's *)
WheelAgrees(app_speed, app_dir, st) ==
    /\ app_speed = st.speed_percent
    /\ (app_dir = 1 <=> st.direction = 1)
    /\ (app_dir = -1 <=> st.direction = 2)
    /\ (app_dir = 0 <=> st.direction = 0)

StatusAgrees ==
    /\ WheelAgrees(g_motor_app_status.current_speed_a,
                   g_motor_app_status.current_dir_a,
                   g_tb6612_driver.motor_status[0])
    /\ WheelAgrees(g_motor_app_status.current_speed_b,
                   g_motor_app_status.current_dir_b,
                   g_tb6612_driver.motor_status[1])

(* C23: after every successful motor_app operation the retained app     *)
(* status agrees with the driver's recorded motor status for both       *)
(* wheels: current_speed equals speed_percent, and current_dir is 1, -1 *)
(* or 0 exactly when the driver's direction is FORWARD, BACKWARD, STOP. *)
C23_StatusAgreesWithDriver ==
    [][ (last' # last /\ last'.op \in MotorAppOps /\ last'.ret = 0)
        => StatusAgrees' ]_vars

(* ------------------------------------------------------------------ *)
(* The driver's record against the PWM hardware                        *)
(* ------------------------------------------------------------------ *)
Tb6612Ops ==
    {"tb6612_init", "tb6612_deinit", "tb6612_set_direction", "tb6612_set_speed",
     "tb6612_set_motor_pair", "tb6612_stop", "tb6612_stop_all"}

(* the compare register of each wheel's channel holds the duty the      *)
(* driver records for the wheel                                         *)
RecordedDutyApplied ==
    \A w \in {0, 1} :
        ccr[w + 1] = (g_pwm_state.period
                      * g_tb6612_driver.motor_status[w].speed_percent) \div 100

StoppedWheels(h) ==
    IF h.op = "tb6612_stop" THEN {h.arg[1]}
    ELSE IF h.op = "tb6612_stop_all" THEN {0, 1}
    ELSE {}

(* C24: after any sequence of successful tb6612 driver operations each  *)
(* motor's recorded speed_percent equals the PWM duty most recently     *)
(* applied to that motor's channel; after tb6612_stop or                *)
(* tb6612_stop_all the channel's duty is 0 and its PWM output stopped.  *)
C24_RecordedSpeedIsAppliedDuty ==
    [][ (last' # last /\ last'.op \in Tb6612Ops /\ last'.ret = 0
           /\ g_tb6612_driver'.initialized)
        => /\ RecordedDutyApplied'
           /\ \A w \in StoppedWheels(last') :
                 ccr'[w + 1] = 0 /\ ~pwm_on'[w + 1] ]_vars

(* ------------------------------------------------------------------ *)
(* The update flags die down when the data stop                        *)
(* ------------------------------------------------------------------ *)
(* C25: every bit of data_update_flags set by the callback is cleared   *)
(* by jy61p_data_convert_and_print, so that once no further callback    *)
(* fires data_update_flags returns to 0 and stays there, and the next   *)
(* jy61p_data_convert_and_print returns at its first test.              *)
C25_FlagsReturnToZero ==
    (<>[][~DataUpdateCallback]_vars) => <>[](g_app_ctx.data_update_flags = 0)

(* ------------------------------------------------------------------ *)
(* What the register-update callback does to the flags                 *)
(* ------------------------------------------------------------------ *)
InRange(r, h) == h.arg[1] <= r /\ r < h.arg[1] + h.arg[2]

(* the bits a callback for the registers of h has to set *)
BitsDue(h) ==
    (IF InRange(54, h) THEN {1} ELSE {})
    \cup (IF InRange(57, h) THEN {2} ELSE {})
    \cup (IF InRange(60, h) THEN {8} ELSE {})
    \cup (IF InRange(63, h) THEN {4} ELSE {})
    \cup (IF \E r \in h.arg[1]..(h.arg[1] + h.arg[2] - 1) :
                r \notin {54, 57, 60, 63}
          THEN {128} ELSE {})

(* C26: jy61p_sensor_data_process(reg, n) only sets bits of             *)
(* data_update_flags and never clears one: ACC_UPDATE iff AZ lies in    *)
(* [reg, reg+n), GYRO_UPDATE iff GZ does, MAG_UPDATE iff HZ does,       *)
(* ANGLE_UPDATE iff Yaw does, READ_UPDATE iff the range holds any other *)
(* register; with n = 0 the flags are unchanged.                        *)
C26_CallbackSetsExactBits ==
    [][ (last' # last /\ last'.op = "jy61p_sensor_data_process")
        => LET f == g_app_ctx.data_update_flags
               g == g_app_ctx'.data_update_flags
           IN  /\ g \in 0..255
               /\ \A b \in {1, 2, 4, 8, 16, 32, 64, 128} :
                     ((g \div b) % 2 = 1)
                     <=> ((f \div b) % 2 = 1 \/ b \in BitsDue(last'))
               /\ last'.arg[2] = 0 => g = f ]_vars

(* a three-register report starting at AZ has set ACC_UPDATE and        *)
(* READ_UPDATE, while ANGLE_UPDATE, set before, stays                   *)
C26_Witness ==
    /\ last.op = "jy61p_sensor_data_process"
    /\ last.arg = <<54, 3>>
    /\ g_app_ctx.data_update_flags = 1 + 4 + 128
    /\ conv_pc = <<"idle", 0>>

(* ------------------------------------------------------------------ *)
(* The app's initialized flag against the driver's                     *)
(* ------------------------------------------------------------------ *)
(* C27: after any sequence of motor_app_init, motor_app_deinit and      *)
(* motor_app control calls, with initialization allowed to fail at the  *)
(* port layer, motor_app_is_initialized() implies that the tb6612       *)
(* driver is initialized, and a failed motor_app_init leaves the app    *)
(* uninitialized with an all-zero status.                               *)
C27_AppInitializedImpliesDriver ==
    [][ /\ motor_app_is_initialized(g_motor_app_status')
           => g_tb6612_driver'.initialized
        /\ (last'.op = "motor_app_init" /\ last'.ret # 0)
           => /\ ~motor_app_is_initialized(g_motor_app_status')
              /\ g_motor_app_status' =
                    [initialized |-> FALSE, motor_a_enabled |-> FALSE,
                     motor_b_enabled |-> FALSE, current_speed_a |-> 0,
                     current_speed_b |-> 0, current_dir_a |-> 0,
                     current_dir_b |-> 0] ]_vars

(* an initialization that failed after the app had been up, driven and  *)
(* shut down                                                            *)
C27_Witness ==
    /\ last.op = "motor_app_init"
    /\ last.ret = -1
    /\ ~g_motor_app_status.initialized
    /\ ~g_tb6612_driver.initialized
    /\ ccr[1] > 0

(* ------------------------------------------------------------------ *)
(* The driver's RUNNING / IDLE record                                  *)
(* ------------------------------------------------------------------ *)
(* C28: after any sequence of successful public tb6612 driver           *)
(* operations a motor's recorded state is TB6612_STATE_RUNNING only if  *)
(* its recorded direction is FORWARD or BACKWARD and its recorded       *)
(* speed_percent is greater than 0; otherwise it is TB6612_STATE_IDLE.  *)
C28_RunningOnlyWhenMoving ==
    [][ (last' # last /\ last'.op \in Tb6612Ops /\ last'.ret = 0)
        => \A w \in {0, 1} :
              LET st == g_tb6612_driver'.motor_status[w]
              IN  /\ st.state \in {0, 1}
                  /\ st.state = 1
                     <=> (st.direction \in {1, 2} /\ st.speed_percent > 0) ]_vars

(* ------------------------------------------------------------------ *)
(* The configured duty limits                                          *)
(* ------------------------------------------------------------------ *)
(* C29: the PWM duty applied to a motor channel never exceeds the       *)
(* driver's configured max_duty_cycle (95% with the default             *)
(* configuration) and, when nonzero, is never below the configured      *)
(* min_duty_cycle, for every speed a caller may pass in 0..100.         *)
C29_DutyWithinConfiguredLimits ==
    g_tb6612_driver.initialized
    => \A c \in 1..2 :
          /\ ccr[c] * 100
             <= g_tb6612_driver.config.max_duty_cycle * g_pwm_state.period
          /\ ccr[c] > 0
             => ccr[c] * 100
                >= g_tb6612_driver.config.min_duty_cycle * g_pwm_state.period

(* ------------------------------------------------------------------ *)
(* The timer parameters of every PWM frequency                         *)
(* ------------------------------------------------------------------ *)
(* the period of a prescaler fits the 16-bit timer *)
PeriodFits(p, f) ==
    LET period == 168000000 \div (p * f)
    IN  period >= 1 /\ period <= 65536

(* C30: for every PWM frequency in 1000..20000 Hz                       *)
(* calculate_pwm_parameters succeeds with the smallest prescaler p >= 1 *)
(* for which period = 168000000 / (p * frequency) lies in 1..65536, and *)
(* both values survive the cast to uint16 unchanged (period is never    *)
(* 65536), so Prescaler = p - 1 and Period = period - 1 never wrap.     *)
C30_PwmParametersExact ==
    (last.op = "pwm_port_init" /\ last.arg[1] >= 1000 /\ last.arg[1] <= 20000)
    => LET f == last.arg[1]
           p == g_pwm_state.prescaler
       IN  /\ last.ret = 0
           /\ g_pwm_state.initialized
           /\ g_pwm_state.frequency = f
           /\ p >= 1 /\ p <= 65535
           /\ PeriodFits(p, f)
           /\ \A q \in 1..(p - 1) : ~PeriodFits(q, f)
           /\ g_pwm_state.period = 168000000 \div (p * f)
           /\ g_pwm_state.period >= 1 /\ g_pwm_state.period <= 65535

(* the lowest frequency: prescalers 1 and 2 give periods too long for   *)
(* the timer, prescaler 3 gives 56000                                   *)
C30_Witness ==
    /\ last.op = "pwm_port_init"
    /\ last.arg = <<1000>>
    /\ g_pwm_state.prescaler = 3
    /\ g_pwm_state.period = 56000

====
